---- MODULE Spec2Model ----
(***************************************************************************)
(* A model of the ovpnfile parser: the directive registry generated by     *)
(* define_config_directives! (src/src/config_directive.rs) and the line    *)
(* loop of parse (src/src/lib.rs).                                         *)
(*                                                                         *)
(* Text.  A line is a sequence of segments.  A segment is either one of    *)
(* the characters the code tests for (a whitespace character, "#", "<",    *)
(* "/", ">") or a non-empty run of other characters, which the code only   *)
(* copies and compares.  The text of a line is the concatenation of its    *)
(* segments (LineText); tokens, regex captures and file contents are       *)
(* strings built by concatenation.                                         *)
(*                                                                         *)
(* Values.  Option<T> is a sequence of length 0 (None) or 1 (Some).  A     *)
(* field of a directive is a pair <<tag, strings>>: String(s), None_,      *)
(* Some(s), Vec(v), SomeVec(v), FilePath(p), InlineFileContents(s).        *)
(***************************************************************************)
EXTENDS Integers, Sequences, FiniteSets, TLC

VARIABLES
    lines_read,               \* the items buf_reader.lines() has yielded so far
    line_index,               \* enumerate() index of the next item
    success_lines,            \* parse: let mut success_lines
    warning_lines,            \* parse: let mut warning_lines
    inline_file_parse_state,  \* parse: Option<InlineFileParseState>
    pc,                       \* "reading" | "returned" | "panicked"
    ret                       \* the value parse returned, <<>> before it returns

vars == <<lines_read, line_index, success_lines, warning_lines,
          inline_file_parse_state, pc, ret>>

(***************************************************************************)
(* Bounds of the checked instances.                                        *)
(***************************************************************************)
MaxLines == 4
MaxArgs == 5
MaxBlockLines == 3
MaxMarkerLines == 3

(***************************************************************************)
(* The registry: one record per entry of the define_config_directives!     *)
(* table, in table order.  rule names the macro rule the entry matches.    *)
(***************************************************************************)
Registry == <<
    [command |-> "help", rust_name |-> "Help", rule |-> "no_arguments", args |-> <<>>, optional_args |-> <<>>],
    [command |-> "config", rust_name |-> "Config", rule |-> "other", args |-> <<"file">>, optional_args |-> <<>>],
    [command |-> "mode", rust_name |-> "Mode", rule |-> "other", args |-> <<"m">>, optional_args |-> <<>>],
    [command |-> "local", rust_name |-> "Local", rule |-> "other", args |-> <<"host">>, optional_args |-> <<>>],
    [command |-> "remote", rust_name |-> "Remote", rule |-> "other", args |-> <<"host">>, optional_args |-> <<"port", "proto">>],
    [command |-> "remote-random-hostname", rust_name |-> "RemoteRandomHostname", rule |-> "no_arguments", args |-> <<>>, optional_args |-> <<>>],
    [command |-> "proto-force", rust_name |-> "ProtoForce", rule |-> "other", args |-> <<"p">>, optional_args |-> <<>>],
    [command |-> "remote-random", rust_name |-> "RemoteRandom", rule |-> "no_arguments", args |-> <<>>, optional_args |-> <<>>],
    [command |-> "proto", rust_name |-> "Proto", rule |-> "other", args |-> <<"p">>, optional_args |-> <<>>],
    [command |-> "connect-retry", rust_name |-> "ConnectRetry", rule |-> "other", args |-> <<"n">>, optional_args |-> <<"max">>],
    [command |-> "connect-retry-max", rust_name |-> "ConnectRetryMax", rule |-> "other", args |-> <<"n">>, optional_args |-> <<>>],
    [command |-> "show-proxy-settings", rust_name |-> "ShowProxySettings", rule |-> "no_arguments", args |-> <<>>, optional_args |-> <<>>],
    [command |-> "http-proxy", rust_name |-> "HttpProxy", rule |-> "other", args |-> <<"server", "port">>, optional_args |-> <<"authfile_or_auto_or_auto_nct", "auth_method">>],
    [command |-> "http-proxy-option", rust_name |-> "HttpProxyOption", rule |-> "other", args |-> <<"http_proxy_option_type">>, optional_args |-> <<"parm">>],
    [command |-> "http-proxy-user-type", rust_name |-> "HttpProxyUserPass", rule |-> "inline_file", args |-> <<"file">>, optional_args |-> <<>>],
    [command |-> "socks-proxy", rust_name |-> "SocksProxy", rule |-> "other", args |-> <<"server">>, optional_args |-> <<"port", "authfile">>],
    [command |-> "resolv-retry", rust_name |-> "ResolvRetry", rule |-> "other", args |-> <<"n">>, optional_args |-> <<>>],
    [command |-> "float", rust_name |-> "Float", rule |-> "no_arguments", args |-> <<>>, optional_args |-> <<>>],
    [command |-> "ipchange", rust_name |-> "Ipchange", rule |-> "other", args |-> <<"cmd">>, optional_args |-> <<>>],
    [command |-> "port", rust_name |-> "Port", rule |-> "other", args |-> <<"port">>, optional_args |-> <<>>],
    [command |-> "lport", rust_name |-> "Lport", rule |-> "other", args |-> <<"port">>, optional_args |-> <<>>],
    [command |-> "rport", rust_name |-> "Rport", rule |-> "other", args |-> <<"port">>, optional_args |-> <<>>],
    [command |-> "bind", rust_name |-> "Bind", rule |-> "other", args |-> <<>>, optional_args |-> <<"ipv6only">>],
    [command |-> "nobind", rust_name |-> "Nobind", rule |-> "no_arguments", args |-> <<>>, optional_args |-> <<>>],
    [command |-> "dev", rust_name |-> "Dev", rule |-> "other", args |-> <<"devarg">>, optional_args |-> <<>>],
    [command |-> "dev-type", rust_name |-> "DevType", rule |-> "other", args |-> <<"device_type">>, optional_args |-> <<>>],
    [command |-> "topology", rust_name |-> "Topology", rule |-> "other", args |-> <<"mode">>, optional_args |-> <<>>],
    [command |-> "dev-node", rust_name |-> "DevNode", rule |-> "other", args |-> <<"node">>, optional_args |-> <<>>],
    [command |-> "lladdr", rust_name |-> "Lladdr", rule |-> "other", args |-> <<"address">>, optional_args |-> <<>>],
    [command |-> "iproute", rust_name |-> "Iproute", rule |-> "other", args |-> <<"cmd">>, optional_args |-> <<>>],
    [command |-> "ifconfig", rust_name |-> "Ifconfig", rule |-> "other", args |-> <<"l", "rn">>, optional_args |-> <<>>],
    [command |-> "ifconfig-noexec", rust_name |-> "IfconfigNoexec", rule |-> "no_arguments", args |-> <<>>, optional_args |-> <<>>],
    [command |-> "ifconfig-nowarn", rust_name |-> "IfconfigNowarn", rule |-> "no_arguments", args |-> <<>>, optional_args |-> <<>>],
    [command |-> "route", rust_name |-> "Route", rule |-> "other", args |-> <<"network_or_ip">>, optional_args |-> <<"netmask", "gateway", "metric">>],
    [command |-> "route-gateway", rust_name |-> "RouteGateway", rule |-> "other", args |-> <<"gw_or_dhcp">>, optional_args |-> <<>>],
    [command |-> "route-metric", rust_name |-> "RouteMetric", rule |-> "other", args |-> <<"m">>, optional_args |-> <<>>],
    [command |-> "route-delay", rust_name |-> "RouteDelay", rule |-> "other", args |-> <<>>, optional_args |-> <<"n", "w">>],
    [command |-> "route-up", rust_name |-> "RouteUp", rule |-> "other", args |-> <<"cmd">>, optional_args |-> <<>>],
    [command |-> "route-pre-down", rust_name |-> "RoutePreDown", rule |-> "other", args |-> <<"cmd">>, optional_args |-> <<>>],
    [command |-> "route-noexec", rust_name |-> "RouteNoexec", rule |-> "no_arguments", args |-> <<>>, optional_args |-> <<>>],
    [command |-> "route-nopull", rust_name |-> "RouteNopull", rule |-> "no_arguments", args |-> <<>>, optional_args |-> <<>>],
    [command |-> "allow-pull-fqdn", rust_name |-> "AllowPullFqdn", rule |-> "no_arguments", args |-> <<>>, optional_args |-> <<>>],
    [command |-> "client-nat", rust_name |-> "ClientNat", rule |-> "other", args |-> <<"snat_or_dnat", "network", "netmask", "alias">>, optional_args |-> <<>>],
    [command |-> "redirect-gateway", rust_name |-> "RedirectGateway", rule |-> "varargs", args |-> <<"flags">>, optional_args |-> <<>>],
    [command |-> "link-mtu", rust_name |-> "LinkMtu", rule |-> "other", args |-> <<"n">>, optional_args |-> <<>>],
    [command |-> "redirect-private", rust_name |-> "RedirectPrivate", rule |-> "optional_varargs", args |-> <<>>, optional_args |-> <<"flags">>],
    [command |-> "tun-mtu", rust_name |-> "TunMtu", rule |-> "other", args |-> <<"n">>, optional_args |-> <<>>],
    [command |-> "tun-mtu-extra", rust_name |-> "TunMtuExtra", rule |-> "other", args |-> <<"n">>, optional_args |-> <<>>],
    [command |-> "mtu-disc", rust_name |-> "MtuDisc", rule |-> "other", args |-> <<"mtu_disc_type">>, optional_args |-> <<>>],
    [command |-> "mtu-test", rust_name |-> "MtuTest", rule |-> "no_arguments", args |-> <<>>, optional_args |-> <<>>],
    [command |-> "fragment", rust_name |-> "Fragment", rule |-> "other", args |-> <<"max">>, optional_args |-> <<>>],
    [command |-> "mssfix", rust_name |-> "Mssfix", rule |-> "other", args |-> <<"max">>, optional_args |-> <<>>],
    [command |-> "sndbuf", rust_name |-> "Sndbuf", rule |-> "other", args |-> <<"size">>, optional_args |-> <<>>],
    [command |-> "rcvbuf", rust_name |-> "Rcvbuf", rule |-> "other", args |-> <<"size">>, optional_args |-> <<>>],
    [command |-> "mark", rust_name |-> "Mark", rule |-> "other", args |-> <<"value">>, optional_args |-> <<>>],
    [command |-> "socket-flags", rust_name |-> "SocketFlags", rule |-> "varargs", args |-> <<"flags">>, optional_args |-> <<>>],
    [command |-> "txqueuelen", rust_name |-> "Txqueuelen", rule |-> "other", args |-> <<"n">>, optional_args |-> <<>>],
    [command |-> "shaper", rust_name |-> "Shaper", rule |-> "other", args |-> <<"n">>, optional_args |-> <<>>],
    [command |-> "inactive", rust_name |-> "Inactive", rule |-> "other", args |-> <<"n">>, optional_args |-> <<"bytes">>],
    [command |-> "ping", rust_name |-> "Ping", rule |-> "other", args |-> <<"n">>, optional_args |-> <<>>],
    [command |-> "ping-exit", rust_name |-> "PingExit", rule |-> "other", args |-> <<"n">>, optional_args |-> <<>>],
    [command |-> "ping-restart", rust_name |-> "PingRestart", rule |-> "other", args |-> <<"n">>, optional_args |-> <<>>],
    [command |-> "keepalive", rust_name |-> "Keepalive", rule |-> "other", args |-> <<"interval", "timeout">>, optional_args |-> <<>>],
    [command |-> "ping-timer-rem", rust_name |-> "PingTimerRem", rule |-> "no_arguments", args |-> <<>>, optional_args |-> <<>>],
    [command |-> "persist-tun", rust_name |-> "PersistTun", rule |-> "no_arguments", args |-> <<>>, optional_args |-> <<>>],
    [command |-> "persist-key", rust_name |-> "PersistKey", rule |-> "no_arguments", args |-> <<>>, optional_args |-> <<>>],
    [command |-> "persist-local-ip", rust_name |-> "PersistLocalIp", rule |-> "no_arguments", args |-> <<>>, optional_args |-> <<>>],
    [command |-> "persist-remote-ip", rust_name |-> "PersistRemoteIp", rule |-> "no_arguments", args |-> <<>>, optional_args |-> <<>>],
    [command |-> "mlock", rust_name |-> "Mlock", rule |-> "no_arguments", args |-> <<>>, optional_args |-> <<>>],
    [command |-> "up", rust_name |-> "Up", rule |-> "other", args |-> <<"cmd">>, optional_args |-> <<>>],
    [command |-> "up-delay", rust_name |-> "UpDelay", rule |-> "no_arguments", args |-> <<>>, optional_args |-> <<>>],
    [command |-> "down", rust_name |-> "Down", rule |-> "other", args |-> <<"cmd">>, optional_args |-> <<>>],
    [command |-> "down-pre", rust_name |-> "DownPre", rule |-> "no_arguments", args |-> <<>>, optional_args |-> <<>>],
    [command |-> "up-restart", rust_name |-> "UpRestart", rule |-> "no_arguments", args |-> <<>>, optional_args |-> <<>>],
    [command |-> "setenv", rust_name |-> "Setenv", rule |-> "other", args |-> <<"name", "value">>, optional_args |-> <<>>],
    [command |-> "setenv-safe", rust_name |-> "SetenvSafe", rule |-> "other", args |-> <<"name", "value">>, optional_args |-> <<>>],
    [command |-> "ignore-unknown-option", rust_name |-> "IgnoreUnknownOption", rule |-> "varargs", args |-> <<"opts">>, optional_args |-> <<>>],
    [command |-> "script-security", rust_name |-> "ScriptSecurity", rule |-> "other", args |-> <<"level">>, optional_args |-> <<>>],
    [command |-> "disable-occ", rust_name |-> "DisableOcc", rule |-> "no_arguments", args |-> <<>>, optional_args |-> <<>>],
    [command |-> "user", rust_name |-> "User", rule |-> "other", args |-> <<"user">>, optional_args |-> <<>>],
    [command |-> "group", rust_name |-> "Group", rule |-> "other", args |-> <<"group">>, optional_args |-> <<>>],
    [command |-> "cd", rust_name |-> "Cd", rule |-> "other", args |-> <<"dir">>, optional_args |-> <<>>],
    [command |-> "chroot", rust_name |-> "Chroot", rule |-> "other", args |-> <<"dir">>, optional_args |-> <<>>],
    [command |-> "setcon", rust_name |-> "Setcon", rule |-> "other", args |-> <<"context">>, optional_args |-> <<>>],
    [command |-> "daemon", rust_name |-> "Daemon", rule |-> "other", args |-> <<>>, optional_args |-> <<"progname">>],
    [command |-> "syslog", rust_name |-> "Syslog", rule |-> "other", args |-> <<>>, optional_args |-> <<"progname">>],
    [command |-> "errors-to-stderr", rust_name |-> "ErrorsToStderr", rule |-> "no_arguments", args |-> <<>>, optional_args |-> <<>>],
    [command |-> "passtos", rust_name |-> "Passtos", rule |-> "no_arguments", args |-> <<>>, optional_args |-> <<>>],
    [command |-> "inetd", rust_name |-> "Inetd", rule |-> "other", args |-> <<>>, optional_args |-> <<"wait_or_nowait", "progname">>],
    [command |-> "log", rust_name |-> "Log", rule |-> "other", args |-> <<"file">>, optional_args |-> <<>>],
    [command |-> "log-append", rust_name |-> "LogAppend", rule |-> "other", args |-> <<"file">>, optional_args |-> <<>>],
    [command |-> "suppress-timestamps", rust_name |-> "SuppressTimestamps", rule |-> "no_arguments", args |-> <<>>, optional_args |-> <<>>],
    [command |-> "machine-readable-output", rust_name |-> "MachineReadableOutput", rule |-> "no_arguments", args |-> <<>>, optional_args |-> <<>>],
    [command |-> "writepid", rust_name |-> "Writepid", rule |-> "other", args |-> <<"file">>, optional_args |-> <<>>],
    [command |-> "nice", rust_name |-> "Nice", rule |-> "other", args |-> <<"n">>, optional_args |-> <<>>],
    [command |-> "fast-io", rust_name |-> "FastIo", rule |-> "no_arguments", args |-> <<>>, optional_args |-> <<>>],
    [command |-> "multihome", rust_name |-> "Multihome", rule |-> "no_arguments", args |-> <<>>, optional_args |-> <<>>],
    [command |-> "echo", rust_name |-> "Echo", rule |-> "optional_varargs", args |-> <<>>, optional_args |-> <<"parms">>],
    [command |-> "remap-usr1", rust_name |-> "RemapUsr1", rule |-> "other", args |-> <<"signal">>, optional_args |-> <<>>],
    [command |-> "verb", rust_name |-> "Verb", rule |-> "other", args |-> <<"n">>, optional_args |-> <<>>],
    [command |-> "status", rust_name |-> "Status", rule |-> "other", args |-> <<"file">>, optional_args |-> <<"n">>],
    [command |-> "status-version", rust_name |-> "StatusVersion", rule |-> "other", args |-> <<>>, optional_args |-> <<"n">>],
    [command |-> "mute", rust_name |-> "Mute", rule |-> "other", args |-> <<"n">>, optional_args |-> <<>>],
    [command |-> "compress", rust_name |-> "Compress", rule |-> "other", args |-> <<>>, optional_args |-> <<"algorithm">>],
    [command |-> "comp-lzo", rust_name |-> "CompLzo", rule |-> "other", args |-> <<>>, optional_args |-> <<"mode">>],
    [command |-> "comp-noadapt", rust_name |-> "CompNoadapt", rule |-> "no_arguments", args |-> <<>>, optional_args |-> <<>>],
    [command |-> "management", rust_name |-> "Management", rule |-> "other", args |-> <<"ip", "port">>, optional_args |-> <<"pw_file">>],
    [command |-> "management-client", rust_name |-> "ManagementClient", rule |-> "no_arguments", args |-> <<>>, optional_args |-> <<>>],
    [command |-> "management-query-passwords", rust_name |-> "ManagementQueryPasswords", rule |-> "no_arguments", args |-> <<>>, optional_args |-> <<>>],
    [command |-> "management-query-proxy", rust_name |-> "ManagementQueryProxy", rule |-> "no_arguments", args |-> <<>>, optional_args |-> <<>>],
    [command |-> "management-query-remote", rust_name |-> "ManagementQueryRemote", rule |-> "no_arguments", args |-> <<>>, optional_args |-> <<>>],
    [command |-> "management-external-key", rust_name |-> "ManagementExternalKey", rule |-> "no_arguments", args |-> <<>>, optional_args |-> <<>>],
    [command |-> "management-external-cert", rust_name |-> "ManagementExternalCert", rule |-> "other", args |-> <<"certificate_hint">>, optional_args |-> <<>>],
    [command |-> "management-forget-disconnect", rust_name |-> "ManagementForgetDisconnect", rule |-> "no_arguments", args |-> <<>>, optional_args |-> <<>>],
    [command |-> "management-hold", rust_name |-> "ManagementHold", rule |-> "no_arguments", args |-> <<>>, optional_args |-> <<>>],
    [command |-> "management-signal", rust_name |-> "ManagementSignal", rule |-> "no_arguments", args |-> <<>>, optional_args |-> <<>>],
    [command |-> "management-log-cache", rust_name |-> "ManagementLogCache", rule |-> "other", args |-> <<"n">>, optional_args |-> <<>>],
    [command |-> "management-up-down", rust_name |-> "ManagementUpDown", rule |-> "no_arguments", args |-> <<>>, optional_args |-> <<>>],
    [command |-> "management-client-auth", rust_name |-> "ManagementClientAuth", rule |-> "no_arguments", args |-> <<>>, optional_args |-> <<>>],
    [command |-> "management-client-pf", rust_name |-> "ManagementClientPf", rule |-> "no_arguments", args |-> <<>>, optional_args |-> <<>>],
    [command |-> "management-client-user", rust_name |-> "ManagementClientUser", rule |-> "other", args |-> <<"u">>, optional_args |-> <<>>],
    [command |-> "management-client-group", rust_name |-> "ManagementClientGroup", rule |-> "other", args |-> <<"g">>, optional_args |-> <<>>],
    [command |-> "plugin", rust_name |-> "Plugin", rule |-> "other", args |-> <<"module_pathname">>, optional_args |-> <<"init_string">>],
    [command |-> "keying-material-exporter", rust_name |-> "KeyingMaterialExporter", rule |-> "other", args |-> <<"label", "len">>, optional_args |-> <<>>],
    [command |-> "server", rust_name |-> "Server", rule |-> "other", args |-> <<"network", "netmask">>, optional_args |-> <<"nopool">>],
    [command |-> "push", rust_name |-> "Push", rule |-> "other", args |-> <<"option">>, optional_args |-> <<>>],
    [command |-> "push-reset", rust_name |-> "PushReset", rule |-> "no_arguments", args |-> <<>>, optional_args |-> <<>>],
    [command |-> "push-remove", rust_name |-> "PushRemove", rule |-> "other", args |-> <<"opt">>, optional_args |-> <<>>],
    [command |-> "push-peer-info", rust_name |-> "PushPeerInfo", rule |-> "no_arguments", args |-> <<>>, optional_args |-> <<>>],
    [command |-> "disable", rust_name |-> "Disable", rule |-> "no_arguments", args |-> <<>>, optional_args |-> <<>>],
    [command |-> "ifconfig-pool", rust_name |-> "IfconfigPool", rule |-> "other", args |-> <<"start_ip", "end_ip">>, optional_args |-> <<"netmask">>],
    [command |-> "ifconfig-pool-persist", rust_name |-> "IfconfigPoolPersist", rule |-> "other", args |-> <<"file">>, optional_args |-> <<"seconds">>],
    [command |-> "ifconfig-pool-linear", rust_name |-> "IfconfigPoolLinear", rule |-> "no_arguments", args |-> <<>>, optional_args |-> <<>>],
    [command |-> "ifconfig-push", rust_name |-> "IfconfigPush", rule |-> "other", args |-> <<"local", "remote_netmask">>, optional_args |-> <<"alias">>],
    [command |-> "iroute", rust_name |-> "Iroute", rule |-> "other", args |-> <<"network">>, optional_args |-> <<"netmask">>],
    [command |-> "client-to-client", rust_name |-> "ClientToClient", rule |-> "no_arguments", args |-> <<>>, optional_args |-> <<>>],
    [command |-> "duplicate-cn", rust_name |-> "DuplicateCn", rule |-> "no_arguments", args |-> <<>>, optional_args |-> <<>>],
    [command |-> "client-connect", rust_name |-> "ClientConnect", rule |-> "other", args |-> <<"cmd">>, optional_args |-> <<>>],
    [command |-> "client-disconnect", rust_name |-> "ClientDisconnect", rule |-> "other", args |-> <<"cmd">>, optional_args |-> <<>>],
    [command |-> "client-config-dir", rust_name |-> "ClientConfigDir", rule |-> "other", args |-> <<"dir">>, optional_args |-> <<>>],
    [command |-> "ccd-exclusive", rust_name |-> "CcdExclusive", rule |-> "no_arguments", args |-> <<>>, optional_args |-> <<>>],
    [command |-> "tmp-dir", rust_name |-> "TmpDir", rule |-> "other", args |-> <<"dir">>, optional_args |-> <<>>],
    [command |-> "hash-size", rust_name |-> "HashSize", rule |-> "other", args |-> <<"r", "v">>, optional_args |-> <<>>],
    [command |-> "bcast-buffers", rust_name |-> "BcastBuffers", rule |-> "other", args |-> <<"n">>, optional_args |-> <<>>],
    [command |-> "tcp-queue-limit", rust_name |-> "TcpQueueLimit", rule |-> "other", args |-> <<"n">>, optional_args |-> <<>>],
    [command |-> "tcp-nodelay", rust_name |-> "TcpNodelay", rule |-> "no_arguments", args |-> <<>>, optional_args |-> <<>>],
    [command |-> "max-clients", rust_name |-> "MaxClients", rule |-> "other", args |-> <<"n">>, optional_args |-> <<>>],
    [command |-> "max-routes-per-client", rust_name |-> "MaxRoutesPerClient", rule |-> "other", args |-> <<"n">>, optional_args |-> <<>>],
    [command |-> "stale-routes-check", rust_name |-> "StaleRoutesCheck", rule |-> "other", args |-> <<"n">>, optional_args |-> <<"t">>],
    [command |-> "connect-freq", rust_name |-> "ConnectFreq", rule |-> "other", args |-> <<"n", "sec">>, optional_args |-> <<>>],
    [command |-> "learn-address", rust_name |-> "LearnAddress", rule |-> "other", args |-> <<"cmd">>, optional_args |-> <<>>],
    [command |-> "auth-user-pass-verify", rust_name |-> "AuthUserPassVerify", rule |-> "other", args |-> <<"cmd", "method">>, optional_args |-> <<>>],
    [command |-> "auth-gen-token", rust_name |-> "AuthGenToken", rule |-> "other", args |-> <<>>, optional_args |-> <<"lifetime">>],
    [command |-> "opt-verify", rust_name |-> "OptVerify", rule |-> "no_arguments", args |-> <<>>, optional_args |-> <<>>],
    [command |-> "auth-user-pass-optional", rust_name |-> "AuthUserPassOptional", rule |-> "no_arguments", args |-> <<>>, optional_args |-> <<>>],
    [command |-> "client-cert-not-required", rust_name |-> "ClientCertNotRequired", rule |-> "no_arguments", args |-> <<>>, optional_args |-> <<>>],
    [command |-> "verify-client-cert", rust_name |-> "VerifyClientCert", rule |-> "other", args |-> <<"none_optional_require">>, optional_args |-> <<>>],
    [command |-> "username-as-common-name", rust_name |-> "UsernameAsCommonName", rule |-> "no_arguments", args |-> <<>>, optional_args |-> <<>>],
    [command |-> "compat-names", rust_name |-> "CompatNames", rule |-> "other", args |-> <<>>, optional_args |-> <<"no_remapping">>],
    [command |-> "no-name-remapping", rust_name |-> "NoNameRemapping", rule |-> "no_arguments", args |-> <<>>, optional_args |-> <<>>],
    [command |-> "port-share", rust_name |-> "PortShare", rule |-> "other", args |-> <<"host", "port">>, optional_args |-> <<"dir">>],
    [command |-> "client", rust_name |-> "Client", rule |-> "no_arguments", args |-> <<>>, optional_args |-> <<>>],
    [command |-> "pull", rust_name |-> "Pull", rule |-> "no_arguments", args |-> <<>>, optional_args |-> <<>>],
    [command |-> "pull-filter", rust_name |-> "PullFilter", rule |-> "other", args |-> <<"accept_or_ignore_or_reject", "text">>, optional_args |-> <<>>],
    [command |-> "auth-user-pass", rust_name |-> "AuthUserPass", rule |-> "other", args |-> <<>>, optional_args |-> <<"up">>],
    [command |-> "auth-retry", rust_name |-> "AuthRetry", rule |-> "other", args |-> <<"auth_retry_type">>, optional_args |-> <<>>],
    [command |-> "static-challenge", rust_name |-> "StaticChallenge", rule |-> "other", args |-> <<"t", "e">>, optional_args |-> <<>>],
    [command |-> "server-poll-timeout", rust_name |-> "ServerPollTimeout", rule |-> "other", args |-> <<"n">>, optional_args |-> <<>>],
    [command |-> "connect-timeout", rust_name |-> "ConnectTimeout", rule |-> "other", args |-> <<"n">>, optional_args |-> <<>>],
    [command |-> "explicit-exit-notify", rust_name |-> "ExplicitExitNotify", rule |-> "other", args |-> <<>>, optional_args |-> <<"n">>],
    [command |-> "allow-recursive-routing", rust_name |-> "AllowRecursiveRouting", rule |-> "no_arguments", args |-> <<>>, optional_args |-> <<>>],
    [command |-> "secret", rust_name |-> "Secret", rule |-> "inline_file_optional", args |-> <<"file">>, optional_args |-> <<"direction">>],
    [command |-> "key-direction", rust_name |-> "KeyDirection", rule |-> "other", args |-> <<"direction">>, optional_args |-> <<>>],
    [command |-> "auth", rust_name |-> "Auth", rule |-> "other", args |-> <<"alg">>, optional_args |-> <<>>],
    [command |-> "cipher", rust_name |-> "Cipher", rule |-> "other", args |-> <<"alg">>, optional_args |-> <<>>],
    [command |-> "ncp-ciphers", rust_name |-> "NcpCiphers", rule |-> "other", args |-> <<"cipher_list">>, optional_args |-> <<>>],
    [command |-> "ncp-disable", rust_name |-> "NcpDisable", rule |-> "no_arguments", args |-> <<>>, optional_args |-> <<>>],
    [command |-> "keysize", rust_name |-> "Keysize", rule |-> "other", args |-> <<"n">>, optional_args |-> <<>>],
    [command |-> "prng", rust_name |-> "Prng", rule |-> "other", args |-> <<"alg">>, optional_args |-> <<"nsl">>],
    [command |-> "engine", rust_name |-> "Engine", rule |-> "other", args |-> <<>>, optional_args |-> <<"engine_name">>],
    [command |-> "no-replay", rust_name |-> "NoReplay", rule |-> "no_arguments", args |-> <<>>, optional_args |-> <<>>],
    [command |-> "replay-window", rust_name |-> "ReplayWindow", rule |-> "other", args |-> <<"n">>, optional_args |-> <<"t">>],
    [command |-> "mute-replay-warnings", rust_name |-> "MuteReplayWarnings", rule |-> "no_arguments", args |-> <<>>, optional_args |-> <<>>],
    [command |-> "replay-persist", rust_name |-> "ReplayPersist", rule |-> "other", args |-> <<"file">>, optional_args |-> <<>>],
    [command |-> "no-iv", rust_name |-> "NoIv", rule |-> "no_arguments", args |-> <<>>, optional_args |-> <<>>],
    [command |-> "use-prediction-resistance", rust_name |-> "UsePredictionResistance", rule |-> "no_arguments", args |-> <<>>, optional_args |-> <<>>],
    [command |-> "test-crypto", rust_name |-> "TestCrypto", rule |-> "no_arguments", args |-> <<>>, optional_args |-> <<>>],
    [command |-> "tls-auth", rust_name |-> "TlsAuth", rule |-> "inline_file_optional", args |-> <<"file">>, optional_args |-> <<"direction">>],
    [command |-> "tls-server", rust_name |-> "TlsServer", rule |-> "no_arguments", args |-> <<>>, optional_args |-> <<>>],
    [command |-> "tls-client", rust_name |-> "TlsClient", rule |-> "no_arguments", args |-> <<>>, optional_args |-> <<>>],
    [command |-> "ca", rust_name |-> "Ca", rule |-> "inline_file", args |-> <<"file">>, optional_args |-> <<>>],
    [command |-> "capath", rust_name |-> "Capath", rule |-> "other", args |-> <<"dir">>, optional_args |-> <<>>],
    [command |-> "dh", rust_name |-> "Dh", rule |-> "inline_file", args |-> <<"file">>, optional_args |-> <<>>],
    [command |-> "ecdh-curve", rust_name |-> "EcdhCurve", rule |-> "other", args |-> <<"name">>, optional_args |-> <<>>],
    [command |-> "cert", rust_name |-> "Cert", rule |-> "inline_file", args |-> <<"file">>, optional_args |-> <<>>],
    [command |-> "extra-certs", rust_name |-> "ExtraCerts", rule |-> "inline_file", args |-> <<"file">>, optional_args |-> <<>>],
    [command |-> "key", rust_name |-> "Key", rule |-> "inline_file", args |-> <<"file">>, optional_args |-> <<>>],
    [command |-> "tls-version-min", rust_name |-> "TlsVersionMin", rule |-> "other", args |-> <<"version">>, optional_args |-> <<"or_highest">>],
    [command |-> "tls-version-max", rust_name |-> "TlsVersionMax", rule |-> "other", args |-> <<"version">>, optional_args |-> <<>>],
    [command |-> "pkcs12", rust_name |-> "Pkcs12", rule |-> "inline_file", args |-> <<"file">>, optional_args |-> <<>>],
    [command |-> "verify-hash", rust_name |-> "VerifyHash", rule |-> "other", args |-> <<"hash">>, optional_args |-> <<>>],
    [command |-> "pkcs11-cert-private", rust_name |-> "Pkcs11CertPrivate", rule |-> "varargs", args |-> <<"providers">>, optional_args |-> <<>>],
    [command |-> "pkcs11-id", rust_name |-> "Pkcs11Id", rule |-> "other", args |-> <<"name">>, optional_args |-> <<>>],
    [command |-> "pkcs11-id-management", rust_name |-> "Pkcs11IdManagement", rule |-> "no_arguments", args |-> <<>>, optional_args |-> <<>>],
    [command |-> "pkcs11-pin-cache", rust_name |-> "Pkcs11PinCache", rule |-> "other", args |-> <<"seconds">>, optional_args |-> <<>>],
    [command |-> "pkcs11-protected-authentication", rust_name |-> "Pkcs11ProtectedAuthentication", rule |-> "varargs", args |-> <<"providers">>, optional_args |-> <<>>],
    [command |-> "pkcs11-providers", rust_name |-> "Pkcs11Providers", rule |-> "varargs", args |-> <<"providers">>, optional_args |-> <<>>],
    [command |-> "pkcs11-private-mode", rust_name |-> "Pkcs11PrivateMode", rule |-> "varargs", args |-> <<"modes">>, optional_args |-> <<>>],
    [command |-> "cryptoapicert", rust_name |-> "Cryptoapicert", rule |-> "other", args |-> <<"select_string">>, optional_args |-> <<>>],
    [command |-> "key-method", rust_name |-> "KeyMethod", rule |-> "other", args |-> <<"m">>, optional_args |-> <<>>],
    [command |-> "tls-cipher", rust_name |-> "TlsCipher", rule |-> "other", args |-> <<"l">>, optional_args |-> <<>>],
    [command |-> "tls-timeout", rust_name |-> "TlsTimeout", rule |-> "other", args |-> <<"n">>, optional_args |-> <<>>],
    [command |-> "reneg-bytes", rust_name |-> "RenegBytes", rule |-> "other", args |-> <<"n">>, optional_args |-> <<>>],
    [command |-> "reneg-pkts", rust_name |-> "RenegPkts", rule |-> "other", args |-> <<"n">>, optional_args |-> <<>>],
    [command |-> "reneg-sec", rust_name |-> "RenegSec", rule |-> "other", args |-> <<"n">>, optional_args |-> <<>>],
    [command |-> "hand-window", rust_name |-> "HandWindow", rule |-> "other", args |-> <<"n">>, optional_args |-> <<>>],
    [command |-> "tran-window", rust_name |-> "TranWindow", rule |-> "other", args |-> <<"n">>, optional_args |-> <<>>],
    [command |-> "single-session", rust_name |-> "SingleSession", rule |-> "no_arguments", args |-> <<>>, optional_args |-> <<>>],
    [command |-> "tls-exit", rust_name |-> "TlsExit", rule |-> "no_arguments", args |-> <<>>, optional_args |-> <<>>],
    [command |-> "tls-crypt", rust_name |-> "TlsCrypt", rule |-> "inline_file", args |-> <<"file">>, optional_args |-> <<>>],
    [command |-> "askpass", rust_name |-> "Askpass", rule |-> "other", args |-> <<>>, optional_args |-> <<"file">>],
    [command |-> "auth-nocache", rust_name |-> "AuthNocache", rule |-> "no_arguments", args |-> <<>>, optional_args |-> <<>>],
    [command |-> "auth-token", rust_name |-> "AuthToken", rule |-> "other", args |-> <<"token">>, optional_args |-> <<>>],
    [command |-> "tls-verify", rust_name |-> "TlsVerify", rule |-> "other", args |-> <<"cmd">>, optional_args |-> <<>>],
    [command |-> "tls-export-cert", rust_name |-> "TlsExportCert", rule |-> "other", args |-> <<"directory">>, optional_args |-> <<>>],
    [command |-> "x509-username-field", rust_name |-> "X509UsernameField", rule |-> "other", args |-> <<"fieldname">>, optional_args |-> <<>>],
    [command |-> "verify-x509-name", rust_name |-> "VerifyX509Name", rule |-> "other", args |-> <<"name", "verify_x509_name_type">>, optional_args |-> <<>>],
    [command |-> "x509-track", rust_name |-> "X509Track", rule |-> "other", args |-> <<"attribute">>, optional_args |-> <<>>],
    [command |-> "ns-cert-type", rust_name |-> "NsCertType", rule |-> "other", args |-> <<"client_or_server">>, optional_args |-> <<>>],
    [command |-> "remote-cert-ku", rust_name |-> "RemoteCertKu", rule |-> "varargs", args |-> <<"values">>, optional_args |-> <<>>],
    [command |-> "remote-cert-eku", rust_name |-> "RemoteCertEku", rule |-> "other", args |-> <<"oid">>, optional_args |-> <<>>],
    [command |-> "remote-cert-tls", rust_name |-> "RemoteCertTls", rule |-> "other", args |-> <<"client_or_server">>, optional_args |-> <<>>],
    [command |-> "crl-verify", rust_name |-> "CrlVerify", rule |-> "inline_file_optional", args |-> <<"file">>, optional_args |-> <<"direction">>],
    [command |-> "show-ciphers", rust_name |-> "ShowCiphers", rule |-> "no_arguments", args |-> <<>>, optional_args |-> <<>>],
    [command |-> "show-digests", rust_name |-> "ShowDigests", rule |-> "no_arguments", args |-> <<>>, optional_args |-> <<>>],
    [command |-> "show-tls", rust_name |-> "ShowTls", rule |-> "no_arguments", args |-> <<>>, optional_args |-> <<>>],
    [command |-> "show-engines", rust_name |-> "ShowEngines", rule |-> "no_arguments", args |-> <<>>, optional_args |-> <<>>],
    [command |-> "show-curves", rust_name |-> "ShowCurves", rule |-> "no_arguments", args |-> <<>>, optional_args |-> <<>>],
    [command |-> "genkey", rust_name |-> "Genkey", rule |-> "no_arguments", args |-> <<>>, optional_args |-> <<>>],
    [command |-> "mktun", rust_name |-> "Mktun", rule |-> "no_arguments", args |-> <<>>, optional_args |-> <<>>],
    [command |-> "rmtun", rust_name |-> "Rmtun", rule |-> "no_arguments", args |-> <<>>, optional_args |-> <<>>],
    [command |-> "win-sys", rust_name |-> "WinSys", rule |-> "other", args |-> <<"path">>, optional_args |-> <<>>],
    [command |-> "ip-win32", rust_name |-> "IpWin32", rule |-> "other", args |-> <<"method">>, optional_args |-> <<>>],
    [command |-> "route-method", rust_name |-> "RouteMethod", rule |-> "other", args |-> <<"m">>, optional_args |-> <<>>],
    [command |-> "dhcp-option", rust_name |-> "DhcpOption", rule |-> "other", args |-> <<"dhcp_option_type">>, optional_args |-> <<"parm">>],
    [command |-> "tap-sleep", rust_name |-> "TapSleep", rule |-> "other", args |-> <<"n">>, optional_args |-> <<>>],
    [command |-> "show-net-up", rust_name |-> "ShowNetUp", rule |-> "no_arguments", args |-> <<>>, optional_args |-> <<>>],
    [command |-> "block-outside-dns", rust_name |-> "BlockOutsideDns", rule |-> "no_arguments", args |-> <<>>, optional_args |-> <<>>],
    [command |-> "dhcp-renew", rust_name |-> "DhcpRenew", rule |-> "no_arguments", args |-> <<>>, optional_args |-> <<>>],
    [command |-> "dhcp-release", rust_name |-> "DhcpRelease", rule |-> "no_arguments", args |-> <<>>, optional_args |-> <<>>],
    [command |-> "register-dns", rust_name |-> "RegisterDns", rule |-> "no_arguments", args |-> <<>>, optional_args |-> <<>>],
    [command |-> "pause-exit", rust_name |-> "PauseExit", rule |-> "no_arguments", args |-> <<>>, optional_args |-> <<>>],
    [command |-> "service", rust_name |-> "Service", rule |-> "other", args |-> <<"exit_event">>, optional_args |-> <<"initial_state_of_event">>],
    [command |-> "show-adapters", rust_name |-> "ShowAdapters", rule |-> "no_arguments", args |-> <<>>, optional_args |-> <<>>],
    [command |-> "allow-nonadmin", rust_name |-> "AllowNonadmin", rule |-> "other", args |-> <<>>, optional_args |-> <<"tap_adapter">>],
    [command |-> "show-valid-subnets", rust_name |-> "ShowValidSubnets", rule |-> "no_arguments", args |-> <<>>, optional_args |-> <<>>],
    [command |-> "show-net", rust_name |-> "ShowNet", rule |-> "no_arguments", args |-> <<>>, optional_args |-> <<>>],
    [command |-> "show-pkcs11-ids", rust_name |-> "ShowPkcs11Ids", rule |-> "other", args |-> <<>>, optional_args |-> <<"provider", "cert_private">>],
    [command |-> "show-gateway", rust_name |-> "ShowGateway", rule |-> "other", args |-> <<>>, optional_args |-> <<"v6target">>],
    [command |-> "ifconfig-ipv6", rust_name |-> "IfconfigIpv6", rule |-> "other", args |-> <<"ipv6addr", "ipv6remote">>, optional_args |-> <<>>],
    [command |-> "route-ipv6", rust_name |-> "RouteIpv6", rule |-> "other", args |-> <<"ipv6addr">>, optional_args |-> <<"gateway", "metric">>],
    [command |-> "server-ipv6", rust_name |-> "ServerIpv6", rule |-> "other", args |-> <<"ipv6addr">>, optional_args |-> <<>>],
    [command |-> "ifconfig-ipv6-pool", rust_name |-> "IfconfigIpv6Pool", rule |-> "other", args |-> <<"ipv6addr">>, optional_args |-> <<>>],
    [command |-> "ifconfig-ipv6-push", rust_name |-> "IfconfigIpv6Push", rule |-> "other", args |-> <<"ipv6addr", "ipv6remote">>, optional_args |-> <<>>],
    [command |-> "iroute-ipv6", rust_name |-> "IrouteIpv6", rule |-> "other", args |-> <<"ipv6addr">>, optional_args |-> <<>>]
>>

(***************************************************************************)
(* Text helpers.                                                           *)
(***************************************************************************)
Whitespace == {" ", "\t"}

RECURSIVE LineText(_)
LineText(line) ==
    IF line = <<>> THEN "" ELSE Head(line) \o LineText(Tail(line))

\* str::trim: drop leading and trailing whitespace
RECURSIVE trim_start(_)
trim_start(line) ==
    IF line # <<>> /\ Head(line) \in Whitespace THEN trim_start(Tail(line)) ELSE line

RECURSIVE trim_end(_)
trim_end(line) ==
    IF line # <<>> /\ line[Len(line)] \in Whitespace
    THEN trim_end(SubSeq(line, 1, Len(line) - 1))
    ELSE line

trim(line) == trim_end(trim_start(line))

starts_with(line, c) == line # <<>> /\ Head(line) = c

is_empty(line) == line = <<>>

\* COMMENT_REGEX = #.*$ ; replace(&line, "") deletes the leftmost match,
\* that is, everything from the first "#" to the end of the line
\* a replace that spares a "#" that follows a backslash
COMMENT_REGEX_replace_unescaped(line) ==
    LET hashes == {k \in 1..Len(line) :
                      line[k] = "#" /\ (k = 1 \/ line[k - 1] # "\\")}
    IN  IF hashes = {} THEN line
        ELSE SubSeq(line, 1, (CHOOSE k \in hashes : \A j \in hashes : k <= j) - 1)

COMMENT_REGEX_replace(line) ==
    LET hashes == {k \in 1..Len(line) : line[k] = "#"}
    IN  IF hashes = {} THEN line
        ELSE SubSeq(line, 1, (CHOOSE k \in hashes : \A j \in hashes : k <= j) - 1)

\* str::split_whitespace().collect(): the maximal runs of non-whitespace
RECURSIVE split_from(_, _, _, _)
split_from(line, i, cur, acc) ==
    IF i > Len(line)
    THEN IF cur = "" THEN acc ELSE Append(acc, cur)
    ELSE IF line[i] \in Whitespace
         THEN split_from(line, i + 1, "", IF cur = "" THEN acc ELSE Append(acc, cur))
         ELSE split_from(line, i + 1, cur \o line[i], acc)

split_whitespace(line) == split_from(line, 1, "", <<>>)

\* the last index of the run of non-whitespace segments that starts at from
\* (from - 1 when the run is empty): how far a greedy \S+ can reach
RECURSIVE NonWsRunEnd(_, _)
NonWsRunEnd(line, from) ==
    IF from > Len(line) \/ line[from] \in Whitespace
    THEN from - 1
    ELSE NonWsRunEnd(line, from + 1)

\* Capture group 1 of ^<prefix>(\S+)> : \S+ is greedy, so the closing ">" is
\* the last one of the non-whitespace run, with at least one character
\* captured.  <<>> when the regex does not match.
RegexCapture(line, prefix) ==
    LET p == Len(prefix)
        e == NonWsRunEnd(line, p + 1)
        closers == {k \in (p + 2)..e : line[k] = ">"}
    IN  IF Len(line) >= p /\ SubSeq(line, 1, p) = prefix /\ closers # {}
        THEN LET k == CHOOSE c \in closers : \A d \in closers : d <= c
             IN  <<LineText(SubSeq(line, p + 1, k - 1))>>
        ELSE <<>>

INLINE_START_REGEX_captures(line) == RegexCapture(line, <<"<">>)

INLINE_END_REGEX_captures(line) == RegexCapture(line, <<"<", "/">>)

INLINE_FILE_OPTIONS ==
    {"ca", "cert", "extra-certs", "dh", "key", "pkcs12", "crl-verify",
     "http-proxy-user-pass", "tls-auth", "tls-crypt", "secret"}

(***************************************************************************)
(* Values of the directive model.                                          *)
(***************************************************************************)
String(s) == <<"String", <<s>>>>
None_ == <<"None", <<>>>>
Some(s) == <<"Some", <<s>>>>
Vec(v) == <<"Vec", v>>
SomeVec(v) == <<"SomeVec", v>>
FilePath(p) == <<"FilePath", <<p>>>>
InlineFileContents(s) == <<"InlineFileContents", <<s>>>>
NoGateway == <<"NoGateway", <<>>>>
\* the strings are gateway, netmask, pool_start_ip, pool_end_ip, in this order
GatewayConfig(gateway, netmask, pool_start_ip, pool_end_ip) ==
    <<"GatewayConfig", <<gateway, netmask, pool_start_ip, pool_end_ip>>>>

\* a variant of ConfigDirective with its named fields
ConfigDirective(rust_name, fields) == [variant |-> rust_name, fields |-> fields]

NoFields == [f \in {} |-> None_]

\* the tuple variant ServerBridge(ServerBridgeArg)
ServerBridge(arg) == ConfigDirective("ServerBridge", [f \in {"0"} |-> arg])

NoMatchingCommand == [kind |-> "NoMatchingCommand"]
NotEnoughArguments == [kind |-> "NotEnoughArguments"]
Success(directive) == [kind |-> "Success", directive |-> directive]

\* the ParseWarning parse records for a LineParseResult that is not Success
ParseWarning(result) ==
    CASE result = NoMatchingCommand -> "NoMatchingCommand"
      [] result = NotEnoughArguments -> "NotEnoughArguments"

Range(s) == {s[i] : i \in 1..Len(s)}

IndexOf(s, x) == CHOOSE i \in 1..Len(s) : s[i] = x

(***************************************************************************)
(* The match arms the macro rules generate.                                *)
(***************************************************************************)
\* the rule for command with no arguments rejecting a line that has some
NoArgumentsArm_strict(e, args) ==
    IF Len(args) > 0
    THEN NotEnoughArguments
    ELSE Success(ConfigDirective(e.rust_name, NoFields))

\* rule for command with no arguments
NoArgumentsArm(e, args) == Success(ConfigDirective(e.rust_name, NoFields))

\* the rule for other commands with an absent optional argument left as ""
OtherArm_emptyoptional(e, args) ==
    LET num_required_args == Len(e.args)
    IN  IF Len(args) < num_required_args
        THEN NotEnoughArguments
        ELSE Success(ConfigDirective(e.rust_name,
                [f \in Range(e.args) \cup Range(e.optional_args) |->
                    IF f \in Range(e.args)
                    THEN String(args[IndexOf(e.args, f)])
                    ELSE LET i == num_required_args + IndexOf(e.optional_args, f)
                         IN  IF i <= Len(args) THEN Some(args[i]) ELSE Some("")]))

\* the rule for other commands reporting a short line as an unknown command
OtherArm_wrongwarning(e, args) ==
    LET num_required_args == Len(e.args)
    IN  IF Len(args) < num_required_args
        THEN NoMatchingCommand
        ELSE Success(ConfigDirective(e.rust_name,
                [f \in Range(e.args) \cup Range(e.optional_args) |->
                    IF f \in Range(e.args)
                    THEN String(args[IndexOf(e.args, f)])
                    ELSE LET i == num_required_args + IndexOf(e.optional_args, f)
                         IN  IF i <= Len(args) THEN Some(args[i]) ELSE None_]))

\* rule for other commands: required fields from args[i], optional fields
\* from args.get(i), i counting on from the required ones
OtherArm(e, args) ==
    LET num_required_args == Len(e.args)
    IN  IF Len(args) < num_required_args
        THEN NotEnoughArguments
        ELSE Success(ConfigDirective(e.rust_name,
                [f \in Range(e.args) \cup Range(e.optional_args) |->
                    IF f \in Range(e.args)
                    THEN String(args[IndexOf(e.args, f)])
                    ELSE LET i == num_required_args + IndexOf(e.optional_args, f)
                         IN  IF i <= Len(args) THEN Some(args[i]) ELSE None_]))

\* rule for varargs commands
VarargsArm(e, args) ==
    IF Len(args) = 0
    THEN NotEnoughArguments
    ELSE Success(ConfigDirective(e.rust_name, [f \in Range(e.args) |-> Vec(args)]))

\* the rule for optional varargs commands keeping an empty sequence
OptionalVarargsArm_emptyvec(e, args) ==
    Success(ConfigDirective(e.rust_name, [f \in Range(e.optional_args) |-> SomeVec(args)]))

\* rule for optional varargs commands
OptionalVarargsArm(e, args) ==
    IF Len(args) > 0
    THEN Success(ConfigDirective(e.rust_name,
                                 [f \in Range(e.optional_args) |-> SomeVec(args)]))
    ELSE Success(ConfigDirective(e.rust_name,
                                 [f \in Range(e.optional_args) |-> None_]))

\* the inline file rules with the index of the optional arguments started at
\* the file name
InlineFileArm_fromzero(e, args) ==
    IF Len(args) < 1
    THEN NotEnoughArguments
    ELSE Success(ConfigDirective(e.rust_name,
            [f \in {"file"} \cup Range(e.optional_args) |->
                IF f = "file"
                THEN FilePath(args[1])
                ELSE LET i == IndexOf(e.optional_args, f)
                     IN  IF i <= Len(args) THEN Some(args[i]) ELSE None_]))

\* the inline file rules taking an optional argument only when a further
\* token follows it
InlineFileArm_shortget(e, args) ==
    IF Len(args) < 1
    THEN NotEnoughArguments
    ELSE Success(ConfigDirective(e.rust_name,
            [f \in {"file"} \cup Range(e.optional_args) |->
                IF f = "file"
                THEN FilePath(args[1])
                ELSE LET i == 1 + IndexOf(e.optional_args, f)
                     IN  IF i < Len(args) THEN Some(args[i]) ELSE None_]))

\* rules for inline file commands, without and with optional arguments
InlineFileArm(e, args) ==
    IF Len(args) < 1
    THEN NotEnoughArguments
    ELSE Success(ConfigDirective(e.rust_name,
            [f \in {"file"} \cup Range(e.optional_args) |->
                IF f = "file"
                THEN FilePath(args[1])
                ELSE LET i == 1 + IndexOf(e.optional_args, f)
                     IN  IF i <= Len(args) THEN Some(args[i]) ELSE None_]))

\* the server-bridge arm with netmask and gateway taken in the other order
ServerBridgeArm_swapped(args) ==
    IF Len(args) = 1 /\ args[1] = "nogw"
    THEN Success(ServerBridge(NoGateway))
    ELSE IF Len(args) = 4
         THEN Success(ServerBridge(GatewayConfig(args[2], args[1], args[3], args[4])))
         ELSE NotEnoughArguments

\* the hand-written server-bridge arm
ServerBridgeArm(args) ==
    IF Len(args) = 1 /\ args[1] = "nogw"
    THEN Success(ServerBridge(NoGateway))
    ELSE IF Len(args) = 4
         THEN Success(ServerBridge(GatewayConfig(args[1], args[2], args[3], args[4])))
         ELSE NotEnoughArguments

\* a lookup that also takes an abbreviation of a registered name
RegistryArms_abbreviated(command) ==
    {i \in 1..Len(Registry) :
        \/ Registry[i].command = command
        \/ command = "remot" /\ Registry[i].command = "remote"}

\* the table arms whose string pattern equals command
RegistryArms(command) == {i \in 1..Len(Registry) : Registry[i].command = command}

\* match command { ...table arms in order..., "server-bridge", _ }
parse_line(command, args) ==
    LET arms == RegistryArms(command)
    IN  IF arms # {}
        THEN LET e == Registry[CHOOSE i \in arms : \A j \in arms : i <= j]
             IN  CASE e.rule = "no_arguments" -> NoArgumentsArm(e, args)
                   [] e.rule = "other" -> OtherArm(e, args)
                   [] e.rule = "varargs" -> VarargsArm(e, args)
                   [] e.rule = "optional_varargs" -> OptionalVarargsArm(e, args)
                   [] e.rule \in {"inline_file", "inline_file_optional"} ->
                          InlineFileArm(e, args)
        ELSE IF command = "server-bridge"
             THEN ServerBridgeArm(args)
             ELSE NoMatchingCommand

(***************************************************************************)
(* lib.rs: ConfigLine, InlineFileParseState.                               *)
(***************************************************************************)
ConfigLine(number, result) == [number |-> number, result |-> result]

\* let line_no = line_index: the enumerate() index itself, counted from 0.
\* The cast line_no as i32 is the identity below 2^31 lines.
line_no(index) == index

\* a constructor that leaves the start line at its default
InlineFileParseState_new_unnumbered(number, identifier) ==
    [start_line_no |-> 0, identifier |-> identifier, lines |-> <<>>]

InlineFileParseState_new(number, identifier) ==
    [start_line_no |-> number, identifier |-> identifier, lines |-> <<>>]

\* a completion test that takes the end marker of any identifier
is_completed_by_line_anyid(state, line) == INLINE_END_REGEX_captures(line) # <<>>

is_completed_by_line(state, line) ==
    LET end_identifier_captures == INLINE_END_REGEX_captures(line)
    IN  end_identifier_captures # <<>> /\ end_identifier_captures[1] = state.identifier

add_line(state, line) == [state EXCEPT !.lines = Append(@, line)]

\* a join that puts nothing between the lines
RECURSIVE join_nosep(_)
join_nosep(lines) ==
    IF lines = <<>> THEN "" ELSE LineText(lines[1]) \o join_nosep(Tail(lines))

\* Vec<String>::join("\n")
RECURSIVE join(_)
join(lines) ==
    IF lines = <<>> THEN ""
    ELSE IF Len(lines) = 1 THEN LineText(lines[1])
    ELSE LineText(lines[1]) \o "\n" \o join(Tail(lines))

\* the arms of the match in to_config_line: identifier, variant, and whether
\* the variant has a direction field (set to None)
InlineVariants == <<
    [identifier |-> "ca", rust_name |-> "Ca", direction |-> FALSE],
    [identifier |-> "cert", rust_name |-> "Cert", direction |-> FALSE],
    [identifier |-> "extra-certs", rust_name |-> "ExtraCerts", direction |-> FALSE],
    [identifier |-> "dh", rust_name |-> "Dh", direction |-> FALSE],
    [identifier |-> "key", rust_name |-> "Key", direction |-> FALSE],
    [identifier |-> "pkcs12", rust_name |-> "Pkcs12", direction |-> FALSE],
    [identifier |-> "crl-verify", rust_name |-> "CrlVerify", direction |-> TRUE],
    [identifier |-> "http-proxy-user-pass", rust_name |-> "HttpProxyUserPass",
     direction |-> FALSE],
    [identifier |-> "tls-auth", rust_name |-> "TlsAuth", direction |-> TRUE],
    [identifier |-> "tls-crypt", rust_name |-> "TlsCrypt", direction |-> FALSE],
    [identifier |-> "secret", rust_name |-> "Secret", direction |-> TRUE] >>

\* whether to_config_line reaches an arm other than unreachable!()
to_config_line_defined(state) ==
    \E i \in 1..Len(InlineVariants) : InlineVariants[i].identifier = state.identifier

to_config_line(state) ==
    LET file == InlineFileContents(join(state.lines))
        arm == InlineVariants[CHOOSE i \in 1..Len(InlineVariants) :
                                  InlineVariants[i].identifier = state.identifier]
        directive == ConfigDirective(arm.rust_name,
                        [f \in IF arm.direction THEN {"file", "direction"} ELSE {"file"} |->
                            IF f = "file" THEN file ELSE None_])
    IN  ConfigLine(state.start_line_no, directive)

(***************************************************************************)
(* The items of buf_reader.lines(): Ok(line) or Err(io::Error).            *)
(***************************************************************************)
OkLine(line) == [ok |-> TRUE, line |-> line, error |-> ""]
ErrItem(error) == [ok |-> FALSE, line |-> <<>>, error |-> error]

Ok(success, warning) ==
    [kind |-> "Ok", success_lines |-> success, warning_lines |-> warning]
\* chain_err(|| "Error reading input"): the error keeps the io::Error as cause
Err(cause) == [kind |-> "Err", description |-> "Error reading input", cause |-> cause]

(***************************************************************************)
(* parse.  Init is the state before the first iteration of the for loop;   *)
(* each action is one path through the loop body for the item read.        *)
(***************************************************************************)
Init ==
    /\ lines_read = <<>>
    /\ line_index = 0
    /\ success_lines = <<>>
    /\ warning_lines = <<>>
    /\ inline_file_parse_state = <<>>
    /\ pc = "reading"
    /\ ret = <<>>

\* every path reads the next item of the enumerated iterator
Advance(item) ==
    /\ pc = "reading"
    /\ lines_read' = Append(lines_read, item)
    /\ line_index' = line_index + 1

BlockOpen == inline_file_parse_state # <<>>

\* a start test without the INLINE_FILE_OPTIONS lookup
StartsBlock_anyid(line) == INLINE_START_REGEX_captures(line) # <<>>

\* INLINE_START_REGEX matches and INLINE_FILE_OPTIONS contains the capture
StartsBlock(line) ==
    LET captures == INLINE_START_REGEX_captures(line)
    IN  captures # <<>> /\ captures[1] \in INLINE_FILE_OPTIONS

\* the skip test without the blank-line case
Skipped_commentonly(line) == starts_with(trim(line), "#")

\* the skip test without the trim
Skipped_untrimmed(line) == starts_with(line, "#") \/ is_empty(line)

Skipped(line) == starts_with(trim(line), "#") \/ is_empty(trim(line))

\* a read error that ends the loop and returns what was collected
ReadError_partial(item) ==
    /\ Advance(item)
    /\ ~item.ok
    /\ pc' = "returned"
    /\ ret' = <<Ok(success_lines, warning_lines)>>
    /\ UNCHANGED <<success_lines, warning_lines, inline_file_parse_state>>

\* line_result.chain_err(|| "Error reading input")? on an Err item
ReadError(item) ==
    /\ Advance(item)
    /\ ~item.ok
    /\ pc' = "returned"
    /\ ret' = <<Err(item.error)>>
    /\ UNCHANGED <<success_lines, warning_lines, inline_file_parse_state>>

\* a block end that emits the directive and leaves the block open
BlockEnd_noreset(item) ==
    /\ Advance(item)
    /\ item.ok
    /\ BlockOpen
    /\ is_completed_by_line(inline_file_parse_state[1], item.line)
    /\ success_lines' = Append(success_lines, to_config_line(inline_file_parse_state[1]))
    /\ UNCHANGED <<warning_lines, inline_file_parse_state, pc, ret>>

\* a block is open and the line completes it
BlockEnd(item) ==
    /\ Advance(item)
    /\ item.ok
    /\ BlockOpen
    /\ is_completed_by_line(inline_file_parse_state[1], item.line)
    /\ IF to_config_line_defined(inline_file_parse_state[1])
       THEN /\ success_lines' =
                   Append(success_lines, to_config_line(inline_file_parse_state[1]))
            /\ inline_file_parse_state' = <<>>
            /\ pc' = pc
       ELSE /\ pc' = "panicked"
            /\ UNCHANGED <<success_lines, inline_file_parse_state>>
    /\ UNCHANGED <<warning_lines, ret>>

\* a block is open and the line does not complete it
BlockContent(item) ==
    /\ Advance(item)
    /\ item.ok
    /\ BlockOpen
    /\ ~is_completed_by_line(inline_file_parse_state[1], item.line)
    /\ inline_file_parse_state' = <<add_line(inline_file_parse_state[1], item.line)>>
    /\ UNCHANGED <<success_lines, warning_lines, pc, ret>>

\* a block start that does not leave the loop body: the block is opened and
\* the start marker line is tokenized and dispatched as well
BlockStart_dispatches(item) ==
    /\ Advance(item)
    /\ item.ok
    /\ ~BlockOpen
    /\ StartsBlock(item.line)
    /\ inline_file_parse_state' =
           <<InlineFileParseState_new(line_no(line_index),
                                      INLINE_START_REGEX_captures(item.line)[1])>>
    /\ LET command_and_args == split_whitespace(COMMENT_REGEX_replace(item.line))
           result == parse_line(command_and_args[1], Tail(command_and_args))
       IN  IF result.kind = "Success"
           THEN /\ success_lines' =
                       Append(success_lines,
                              ConfigLine(line_no(line_index), result.directive))
                /\ warning_lines' = warning_lines
           ELSE /\ warning_lines' =
                       Append(warning_lines,
                              ConfigLine(line_no(line_index), ParseWarning(result)))
                /\ success_lines' = success_lines
    /\ UNCHANGED <<pc, ret>>

\* no block is open and the line is a start marker of an inline file option
BlockStart(item) ==
    /\ Advance(item)
    /\ item.ok
    /\ ~BlockOpen
    /\ StartsBlock(item.line)
    /\ inline_file_parse_state' =
           <<InlineFileParseState_new(line_no(line_index),
                                      INLINE_START_REGEX_captures(item.line)[1])>>
    /\ UNCHANGED <<success_lines, warning_lines, pc, ret>>

\* a comment line or a blank line
SkipLine(item) ==
    /\ Advance(item)
    /\ item.ok
    /\ ~BlockOpen
    /\ ~StartsBlock(item.line)
    /\ Skipped(item.line)
    /\ UNCHANGED <<success_lines, warning_lines, inline_file_parse_state, pc, ret>>

\* a command line: strip the comment, tokenize, dispatch
CommandLine(item) ==
    /\ Advance(item)
    /\ item.ok
    /\ ~BlockOpen
    /\ ~StartsBlock(item.line)
    /\ ~Skipped(item.line)
    /\ LET line_without_comments == COMMENT_REGEX_replace(item.line)
           command_and_args == split_whitespace(line_without_comments)
       IN  IF command_and_args = <<>>
           THEN \* command_and_args[0] is out of bounds
                /\ pc' = "panicked"
                /\ UNCHANGED <<success_lines, warning_lines>>
           ELSE LET command == command_and_args[1]
                    args == Tail(command_and_args)
                    result == parse_line(command, args)
                IN  /\ pc' = pc
                    /\ IF result.kind = "Success"
                       THEN /\ success_lines' =
                                   Append(success_lines,
                                          ConfigLine(line_no(line_index), result.directive))
                            /\ warning_lines' = warning_lines
                       ELSE /\ warning_lines' =
                                   Append(warning_lines,
                                          ConfigLine(line_no(line_index),
                                                     ParseWarning(result)))
                            /\ success_lines' = success_lines
    /\ UNCHANGED <<inline_file_parse_state, ret>>

\* an end of input that emits the directive of a block left open
EndOfInput_flush ==
    /\ pc = "reading"
    /\ pc' = "returned"
    /\ ret' = <<Ok(IF BlockOpen
                   THEN Append(success_lines, to_config_line(inline_file_parse_state[1]))
                   ELSE success_lines,
                   warning_lines)>>
    /\ UNCHANGED <<lines_read, line_index, success_lines, warning_lines,
                   inline_file_parse_state>>

\* the iterator is exhausted: Ok(ParsedConfigFile{..})
EndOfInput ==
    /\ pc = "reading"
    /\ pc' = "returned"
    /\ ret' = <<Ok(success_lines, warning_lines)>>
    /\ UNCHANGED <<lines_read, line_index, success_lines, warning_lines,
                   inline_file_parse_state>>

(***************************************************************************)
(* Inputs of the checked instances.                                        *)
(***************************************************************************)
\* Spec: any input of at most MaxLines items drawn from Items
Lines == {
    <<"resolv-retry", " ", "10">>,
    <<"remote", " ", "somehost", " ", "someport">>,
    <<"remote">>,
    <<"unknown-command">>,
    <<"<", "tls-auth", ">">>,
    <<"line1">>,
    <<"line2">>,
    <<"<", "/", "tls-auth", ">">>,
    <<>>,
    <<" ", "#", " ", "note">> }

IoErrors == {"UnexpectedEof"}

Items == {OkLine(l) : l \in Lines} \cup {ErrItem(e) : e \in IoErrors}

\* RegistrySpec: one command line for every command name and every argument
\* list of at most MaxArgs tokens, alone or after one other line; and one
\* block for every inline file option
ArgTokens == {"nogw", "10.0.0.1"}

RECURSIVE SeqsUpTo(_, _)
SeqsUpTo(S, n) ==
    IF n = 0 THEN {<<>>}
    ELSE LET shorter == SeqsUpTo(S, n - 1)
         IN  shorter \cup {Append(s, x) : s \in {t \in shorter : Len(t) = n - 1}, x \in S}

ArgSeqs == SeqsUpTo(ArgTokens, MaxArgs)

RegisteredNames == {Registry[i].command : i \in 1..Len(Registry)} \cup {"server-bridge"}

\* prefixes, abbreviations and other spellings of registered names
UnregisteredNames ==
    {"remot", "Remote", "REMOTE", "remote-random-host", "server-bridg",
     "Server-Bridge", "c", "unknown-command"}

CommandNames == RegisteredNames \cup INLINE_FILE_OPTIONS \cup UnregisteredNames

RECURSIVE SpaceSeparated(_)
SpaceSeparated(tokens) ==
    IF tokens = <<>> THEN <<>>
    ELSE IF Len(tokens) = 1 THEN tokens
    ELSE <<Head(tokens), " ">> \o SpaceSeparated(Tail(tokens))

CommandLineOf(command, args) == SpaceSeparated(<<command>> \o args)

CommandItems == {OkLine(CommandLineOf(c, a)) : c \in CommandNames, a \in ArgSeqs}

PrefixItems == {OkLine(<<>>), OkLine(<<"remote">>)}

StartMarker(id) == <<"<", id, ">">>
EndMarker(id) == <<"<", "/", id, ">">>

StartMarkerItems == {OkLine(StartMarker(id)) : id \in INLINE_FILE_OPTIONS}

BlockItems ==
    {OkLine(<<"line1">>)} \cup {OkLine(EndMarker(id)) : id \in INLINE_FILE_OPTIONS}

RegistryItems ==
    IF line_index = 0
    THEN PrefixItems \cup StartMarkerItems \cup CommandItems
    ELSE IF lines_read[1] \in StartMarkerItems
         THEN IF line_index < MaxBlockLines THEN BlockItems ELSE {}
         ELSE IF line_index = 1 /\ lines_read[1] \in PrefixItems
              THEN CommandItems
              ELSE {}

\* MarkerSpec: any input of at most MaxMarkerLines lines drawn from
\* MarkerLines: markers alone, indented, of another identifier, of an
\* unknown identifier, followed by further characters, and command lines
\* with a "#", plain and after a backslash
MarkerLines == {
    <<"<", "tls-auth", ">">>,
    <<"<", "/", "tls-auth", ">">>,
    <<" ", "<", "/", "tls-auth", ">">>,
    <<"<", "/", "tls-auth", ">", ">">>,
    <<"<", "/", "ca", ">">>,
    <<"<", "ca", ">">>,
    <<" ", "<", "ca", ">">>,
    <<"<", "ca", ">", "x">>,
    <<"<", "ca", ">", ">">>,
    <<"<", "foo", ">">>,
    <<"remote", " ", "host", " ", "#", " ", "port">>,
    <<"remote", " ", "host", " ", "\\", "#", " ", "port">>,
    <<"resolv-retry", " ", "10">>,
    <<"#", " ", "note">>,
    <<>> }

MarkerItems == {OkLine(l) : l \in MarkerLines}

(***************************************************************************)
(* Specifications.                                                         *)
(***************************************************************************)
Next ==
    \/ \E item \in Items : line_index < MaxLines /\ ReadError(item)
    \/ \E item \in Items : line_index < MaxLines /\ BlockEnd(item)
    \/ \E item \in Items : line_index < MaxLines /\ BlockContent(item)
    \/ \E item \in Items : line_index < MaxLines /\ BlockStart(item)
    \/ \E item \in Items : line_index < MaxLines /\ SkipLine(item)
    \/ \E item \in Items : line_index < MaxLines /\ CommandLine(item)
    \/ EndOfInput

Spec == Init /\ [][Next]_vars

RegistryNext ==
    \/ \E item \in RegistryItems : BlockEnd(item)
    \/ \E item \in RegistryItems : BlockContent(item)
    \/ \E item \in RegistryItems : BlockStart(item)
    \/ \E item \in RegistryItems : SkipLine(item)
    \/ \E item \in RegistryItems : CommandLine(item)
    \/ EndOfInput

RegistrySpec == Init /\ [][RegistryNext]_vars

MarkerNext ==
    \/ \E item \in MarkerItems : line_index < MaxMarkerLines /\ BlockEnd(item)
    \/ \E item \in MarkerItems : line_index < MaxMarkerLines /\ BlockContent(item)
    \/ \E item \in MarkerItems : line_index < MaxMarkerLines /\ BlockStart(item)
    \/ \E item \in MarkerItems : line_index < MaxMarkerLines /\ SkipLine(item)
    \/ \E item \in MarkerItems : line_index < MaxMarkerLines /\ CommandLine(item)
    \/ EndOfInput

MarkerSpec == Init /\ [][MarkerNext]_vars

TypeOK ==
    /\ line_index = Len(lines_read)
    /\ pc \in {"reading", "returned", "panicked"}
    /\ Len(ret) <= 1
    /\ Len(inline_file_parse_state) <= 1

(***************************************************************************)
(* The input as the specification describes it (spec 4.2, rules 1-3): the  *)
(* position in h of the start marker of the block that is open after the   *)
(* lines of h, 0 when no block is open.                                    *)
(***************************************************************************)
RECURSIVE OpenStart(_)
OpenStart(h) ==
    IF h = <<>> THEN 0
    ELSE LET line == h[Len(h)].line
             o == OpenStart(SubSeq(h, 1, Len(h) - 1))
         IN  IF o # 0
             THEN IF INLINE_END_REGEX_captures(line) = INLINE_START_REGEX_captures(h[o].line)
                  THEN 0 ELSE o
             ELSE IF StartsBlock(line) THEN Len(h) ELSE 0

AllReadable == \A k \in 1..Len(lines_read) : lines_read[k].ok

\* the line is empty after trimming or its trimmed form starts with "#"
\* (spec 4.2, rule 4)
BlankOrComment(line) ==
    LET rest == SelectSeq(line, LAMBDA c : c \notin {" ", "\t"})
    IN  rest = <<>> \/ rest[1] = "#"

\* line k of the input is classified as a command (spec 4.2, rule 5)
IsCommandAt(k) ==
    /\ OpenStart(SubSeq(lines_read, 1, k - 1)) = 0
    /\ ~StartsBlock(lines_read[k].line)
    /\ ~BlankOrComment(lines_read[k].line)

\* the entries of a sequence of ConfigLines that carry the number n
EntriesAt(config_lines, n) == {i \in 1..Len(config_lines) : config_lines[i].number = n}

\* C1: parse never fails because of the content of a line.  When every line
\* read so far was readable, parse has not panicked, what it returns is Ok
\* with the two sequences collected, and every command line, also one that
\* follows a warning line, has exactly one entry in success_lines or
\* warning_lines: a line that parse_line rejects has one entry in
\* warning_lines and none in success_lines.
C1_ContentNeverFails ==
    AllReadable =>
        /\ pc # "panicked"
        /\ pc = "returned" => ret = <<Ok(success_lines, warning_lines)>>
        /\ \A k \in 1..Len(lines_read) :
               IsCommandAt(k) =>
                   LET n == line_no(k - 1)
                       tokens == split_whitespace(COMMENT_REGEX_replace(lines_read[k].line))
                   IN  /\ Cardinality(EntriesAt(success_lines, n))
                            + Cardinality(EntriesAt(warning_lines, n)) = 1
                       /\ parse_line(Head(tokens), Tail(tokens)).kind # "Success"
                              => Cardinality(EntriesAt(warning_lines, n)) = 1

\* C1 witness: parse returned Ok for an input in which a command line that
\* follows a warning line produced a directive
C1_Witness ==
    /\ pc = "returned"
    /\ ret # <<>> /\ ret[1].kind = "Ok"
    /\ \E i \in 1..Len(warning_lines), j \in 1..Len(success_lines) :
           warning_lines[i].number < success_lines[j].number

DocScenario == <<
    OkLine(<<"resolv-retry", " ", "10">>),
    OkLine(<<"remote", " ", "somehost", " ", "someport">>),
    OkLine(<<"unknown-command">>) >>

LineTokens(k) == split_whitespace(COMMENT_REGEX_replace(lines_read[k].line))

\* the registry entries of fixed arity that are registered under command
FixedEntries(command) ==
    {i \in 1..Len(Registry) :
        /\ Registry[i].command = command
        /\ Registry[i].rule \in {"no_arguments", "other"}}

\* C3: for every command registered with fixed arity (N required and M
\* optional names) and every command line supplying K tokens, N <= K <= N+M,
\* the line has exactly one entry, in success_lines: the command's variant,
\* whose required field j is the j-th token and whose optional field j is
\* Some(token N+j) when the line has that token and None otherwise.
C3_FixedArityFields ==
    \A k \in 1..Len(lines_read) :
        IsCommandAt(k) =>
            LET args == Tail(LineTokens(k))
                n == line_no(k - 1)
            IN  \A i \in FixedEntries(Head(LineTokens(k))) :
                    LET e == Registry[i]
                        N == Len(e.args)
                        M == Len(e.optional_args)
                    IN  (N <= Len(args) /\ Len(args) <= N + M) =>
                            /\ EntriesAt(warning_lines, n) = {}
                            /\ Cardinality(EntriesAt(success_lines, n)) = 1
                            /\ \A s \in EntriesAt(success_lines, n) :
                                   LET d == success_lines[s].result
                                   IN  /\ d.variant = e.rust_name
                                       /\ DOMAIN d.fields = Range(e.args) \cup Range(e.optional_args)
                                       /\ \A j \in 1..N : d.fields[e.args[j]] = String(args[j])
                                       /\ \A j \in 1..M :
                                              d.fields[e.optional_args[j]] =
                                                  IF N + j <= Len(args)
                                                  THEN Some(args[N + j])
                                                  ELSE None_

\* C3 witness: a remote line with two of its three possible tokens was
\* dispatched: port is present and proto is absent
C3_Witness ==
    \E s \in 1..Len(success_lines) :
        /\ success_lines[s].result.variant = "Remote"
        /\ success_lines[s].result.fields["host"] = String("nogw")
        /\ success_lines[s].result.fields["port"] = Some("10.0.0.1")
        /\ success_lines[s].result.fields["proto"] = None_

\* C4: for every fixed-arity command with N required arguments, a command
\* line supplying K < N tokens has exactly one entry in warning_lines, a
\* NotEnoughArguments with the line's number, and no entry in success_lines.
C4_TooFewArguments ==
    \A k \in 1..Len(lines_read) :
        IsCommandAt(k) =>
            LET args == Tail(LineTokens(k))
                n == line_no(k - 1)
            IN  \A i \in FixedEntries(Head(LineTokens(k))) :
                    Len(args) < Len(Registry[i].args) =>
                        /\ EntriesAt(success_lines, n) = {}
                        /\ Cardinality(EntriesAt(warning_lines, n)) = 1
                        /\ \A w \in EntriesAt(warning_lines, n) :
                               warning_lines[w].result = "NotEnoughArguments"

\* C4 witness: client-nat, which requires four arguments, was read with
\* three, as the second line of the input
C4_Witness ==
    /\ Len(lines_read) = 2
    /\ IsCommandAt(2)
    /\ Head(LineTokens(2)) = "client-nat"
    /\ Len(LineTokens(2)) = 4
    /\ \E w \in 1..Len(warning_lines) :
           warning_lines[w] = ConfigLine(line_no(1), "NotEnoughArguments")

\* C5: command lookup is exact and case-sensitive.  A command line whose
\* first token is not literally a registered name (a prefix, an abbreviation
\* or another spelling of one included) has exactly one entry in
\* warning_lines, a NoMatchingCommand with the line's number, and no entry
\* in success_lines, whatever its arguments.
C5_ExactLookup ==
    \A k \in 1..Len(lines_read) :
        (IsCommandAt(k) /\ Head(LineTokens(k)) \notin RegisteredNames) =>
            LET n == line_no(k - 1)
            IN  /\ EntriesAt(success_lines, n) = {}
                /\ Cardinality(EntriesAt(warning_lines, n)) = 1
                /\ \A w \in EntriesAt(warning_lines, n) :
                       warning_lines[w].result = "NoMatchingCommand"

\* C5 witness: the abbreviation remot and the spelling Remote were each
\* read with enough arguments for remote and gave NoMatchingCommand
C5_Witness ==
    /\ Len(lines_read) >= 1
    /\ IsCommandAt(Len(lines_read))
    /\ Head(LineTokens(Len(lines_read))) \in {"remot", "Remote"}
    /\ Len(LineTokens(Len(lines_read))) = 3
    /\ \E w \in 1..Len(warning_lines) :
           warning_lines[w] = ConfigLine(line_no(Len(lines_read) - 1), "NoMatchingCommand")

\* C6: server-bridge accepts exactly two forms.  The single argument nogw
\* gives ServerBridge(NoGateway); exactly four arguments give
\* ServerBridge(GatewayConfig) with gateway, netmask, pool_start_ip and
\* pool_end_ip filled in that order; every other argument count and a single
\* argument other than nogw give one warning and no directive.
C6_ServerBridgeForms ==
    \A k \in 1..Len(lines_read) :
        (IsCommandAt(k) /\ Head(LineTokens(k)) = "server-bridge") =>
            LET args == Tail(LineTokens(k))
                n == line_no(k - 1)
                accepted == \/ Len(args) = 1 /\ args[1] = "nogw"
                            \/ Len(args) = 4
            IN  IF accepted
                THEN /\ EntriesAt(warning_lines, n) = {}
                     /\ Cardinality(EntriesAt(success_lines, n)) = 1
                     /\ \A s \in EntriesAt(success_lines, n) :
                            /\ success_lines[s].result.variant = "ServerBridge"
                            /\ DOMAIN success_lines[s].result.fields = {"0"}
                            /\ success_lines[s].result.fields["0"] =
                                   IF Len(args) = 1
                                   THEN <<"NoGateway", <<>>>>
                                   ELSE <<"GatewayConfig",
                                          <<args[1], args[2], args[3], args[4]>>>>
                ELSE /\ EntriesAt(success_lines, n) = {}
                     /\ Cardinality(EntriesAt(warning_lines, n)) = 1

\* C6 witness: a server-bridge line with four arguments that are not all
\* equal gave a GatewayConfig
C6_Witness ==
    \E s \in 1..Len(success_lines) :
        /\ success_lines[s].result.variant = "ServerBridge"
        /\ success_lines[s].result.fields["0"] =
               <<"GatewayConfig", <<"10.0.0.1", "nogw", "nogw", "10.0.0.1">>>>

\* the directive variant the crate documentation names for an inline file
\* option
InlineOptionVariant(id) ==
    CASE id = "ca" -> "Ca"
      [] id = "cert" -> "Cert"
      [] id = "extra-certs" -> "ExtraCerts"
      [] id = "dh" -> "Dh"
      [] id = "key" -> "Key"
      [] id = "pkcs12" -> "Pkcs12"
      [] id = "crl-verify" -> "CrlVerify"
      [] id = "http-proxy-user-pass" -> "HttpProxyUserPass"
      [] id = "tls-auth" -> "TlsAuth"
      [] id = "tls-crypt" -> "TlsCrypt"
      [] id = "secret" -> "Secret"

\* line k is the end marker that terminates the block whose start marker is
\* line o
Terminates(o, k) ==
    /\ o # 0
    /\ o = OpenStart(SubSeq(lines_read, 1, k - 1))
    /\ OpenStart(SubSeq(lines_read, 1, k)) = 0

\* the directive of the block with start marker at line o and end marker at
\* line k: the lines strictly between the markers joined with "\n"
BlockDirective(o, k) ==
    LET id == INLINE_START_REGEX_captures(lines_read[o].line)[1]
        file == InlineFileContents(join([i \in 1..(k - o - 1) |-> lines_read[o + i].line]))
    IN  ConfigDirective(InlineOptionVariant(id),
            IF id \in {"crl-verify", "tls-auth", "secret"}
            THEN [file |-> file, direction |-> None_]
            ELSE [file |-> file])

C8_BothForms ==
    /\ \A k \in 1..Len(lines_read) :
           (/\ IsCommandAt(k)
            /\ Head(LineTokens(k)) \in INLINE_FILE_OPTIONS
            /\ Len(LineTokens(k)) >= 2) =>
               /\ Cardinality(EntriesAt(success_lines, line_no(k - 1))) = 1
               /\ \A s \in EntriesAt(success_lines, line_no(k - 1)) :
                      /\ success_lines[s].result.variant =
                             InlineOptionVariant(Head(LineTokens(k)))
                      /\ success_lines[s].result.fields["file"] = FilePath(LineTokens(k)[2])
    /\ \A k \in 1..Len(lines_read) : \A o \in 1..(k - 1) :
           Terminates(o, k) =>
               \E s \in EntriesAt(success_lines, line_no(o - 1)) :
                   /\ success_lines[s].result.variant =
                          InlineOptionVariant(INLINE_START_REGEX_captures(lines_read[o].line)[1])
                   /\ success_lines[s].result.fields["file"][1] = "InlineFileContents"

\* the step reads a blank line or a line whose trimmed form starts with "#"
ReadsSkipped ==
    /\ pc = "reading"
    /\ Len(lines_read') = Len(lines_read) + 1
    /\ lines_read'[Len(lines_read')].ok
    /\ BlankOrComment(lines_read'[Len(lines_read')].line)

\* C9 as stated: a blank line or a line whose trimmed form starts with "#"
\* contributes nothing to either output sequence: reading it adds no entry
\* and changes no entry that is emitted, the entry an open block will emit
\* included.
C9_SkippedContributesNothing ==
    [][ReadsSkipped =>
          /\ success_lines' = success_lines
          /\ warning_lines' = warning_lines
          /\ inline_file_parse_state' = inline_file_parse_state]_vars

\* C9 amended: reading a blank line or a line whose trimmed form starts with
\* "#" adds no entry to success_lines or warning_lines and does not stop the
\* parse; with no block open it changes nothing but the position in the
\* input, and with a block open it is appended verbatim to the block's
\* content.
C9_SkippedAddsNoEntry ==
    [][ReadsSkipped =>
          /\ success_lines' = success_lines
          /\ warning_lines' = warning_lines
          /\ pc' = pc /\ ret' = ret
          /\ inline_file_parse_state' =
                 IF inline_file_parse_state = <<>>
                 THEN <<>>
                 ELSE <<[inline_file_parse_state[1] EXCEPT !.lines =
                            Append(@, lines_read'[Len(lines_read')].line)]>>]_vars

\* C9 witness: a comment line was read with no block open after a directive
\* and a warning had been collected, and the parse went on
C9_Witness ==
    /\ Len(lines_read) = 3
    /\ lines_read[3] = OkLine(<<" ", "#", " ", "note">>)
    /\ OpenStart(SubSeq(lines_read, 1, 2)) = 0
    /\ Len(success_lines) = 1 /\ Len(warning_lines) = 1
    /\ pc = "reading"

\* the positions of the input at which reading failed
FailedReads == {k \in 1..Len(lines_read) : ~lines_read[k].ok}

\* C10: if reading a line fails, parse stops at that line and returns an
\* error wrapping the I/O cause; the directives and warnings collected from
\* the lines read before are not part of what is returned.
C10_ReadFailureIsFatal ==
    \A k \in FailedReads :
        /\ k = Len(lines_read)
        /\ pc = "returned"
        /\ Len(ret) = 1
        /\ ret[1].kind = "Err"
        /\ ret[1].cause = lines_read[k].error
        /\ DOMAIN ret[1] \cap {"success_lines", "warning_lines"} = {}

\* C10 witness: the read failed after lines that had produced a directive
\* and a warning
C10_Witness ==
    /\ FailedReads # {}
    /\ success_lines # <<>>
    /\ warning_lines # <<>>
    /\ pc = "returned"

\* the numbers of a sequence of ConfigLines are strictly ascending
StrictlyAscending(config_lines) ==
    \A i \in 1..Len(config_lines), j \in 1..Len(config_lines) :
        i < j => config_lines[i].number < config_lines[j].number

\* C11: after any sequence of input lines, success_lines and warning_lines
\* are each in strictly ascending line-number order, also for an inline
\* directive, which is appended when its end marker is read and carries the
\* number of its start marker.
C11_AscendingOrder ==
    /\ StrictlyAscending(success_lines)
    /\ StrictlyAscending(warning_lines)

\* C11 witness: an inline directive stands in success_lines after the entry
\* of an earlier command line and before the entry of a later one
C11_Witness ==
    /\ Len(success_lines) = 3
    /\ "file" \in DOMAIN success_lines[2].result.fields
    /\ success_lines[2].result.fields["file"][1] = "InlineFileContents"
    /\ success_lines[1].number < success_lines[2].number
    /\ success_lines[2].number + 1 < success_lines[3].number

\* the registry entries registered under command that match one of rules
EntriesOfRule(command, rules) ==
    {i \in 1..Len(Registry) :
        Registry[i].command = command /\ Registry[i].rule \in rules}

\* line number n has one entry, in success_lines, and it is this directive
OnlySuccessAt(n, variant, fields) ==
    /\ EntriesAt(warning_lines, n) = {}
    /\ Cardinality(EntriesAt(success_lines, n)) = 1
    /\ \A s \in EntriesAt(success_lines, n) :
           /\ success_lines[s].result.variant = variant
           /\ DOMAIN success_lines[s].result.fields = DOMAIN fields
           /\ \A f \in DOMAIN fields : success_lines[s].result.fields[f] = fields[f]

\* line number n has one entry, in warning_lines, and it is this warning
OnlyWarningAt(n, warning) ==
    /\ EntriesAt(success_lines, n) = {}
    /\ Cardinality(EntriesAt(warning_lines, n)) = 1
    /\ \A w \in EntriesAt(warning_lines, n) : warning_lines[w].result = warning

\* C12: for a variadic command all supplied tokens are captured, in order
\* and without loss, as the one sequence field; with zero tokens a varargs
\* command yields NotEnoughArguments, whereas an optional-varargs command
\* succeeds with the field absent (None), never with an empty sequence.
C12_Varargs ==
    \A k \in 1..Len(lines_read) :
        IsCommandAt(k) =>
            LET args == Tail(LineTokens(k))
                n == line_no(k - 1)
            IN  /\ \A i \in EntriesOfRule(Head(LineTokens(k)), {"varargs"}) :
                       IF args = <<>>
                       THEN OnlyWarningAt(n, "NotEnoughArguments")
                       ELSE OnlySuccessAt(n, Registry[i].rust_name,
                                [f \in {Registry[i].args[1]} |-> <<"Vec", args>>])
                /\ \A i \in EntriesOfRule(Head(LineTokens(k)), {"optional_varargs"}) :
                       OnlySuccessAt(n, Registry[i].rust_name,
                           [f \in {Registry[i].optional_args[1]} |->
                               IF args = <<>> THEN <<"None", <<>>>> ELSE <<"SomeVec", args>>])

\* C12 witness: redirect-private was read without tokens, as the second
\* line of the input, and gave the directive with flags absent
C12_Witness ==
    /\ Len(lines_read) = 2
    /\ IsCommandAt(2)
    /\ LineTokens(2) = <<"redirect-private">>
    /\ \E s \in 1..Len(success_lines) :
           success_lines[s] =
               ConfigLine(line_no(1),
                          [variant |-> "RedirectPrivate",
                           fields |-> [flags |-> <<"None", <<>>>>]])

\* C13: for a command of inline-file shape given as a plain line, the first
\* token becomes file = FilePath(token), each trailing optional field j is
\* Some(token 1+j) when the line has that token and None otherwise, and a
\* line with zero argument tokens yields NotEnoughArguments.
C13_InlineFilePlainLine ==
    \A k \in 1..Len(lines_read) :
        IsCommandAt(k) =>
            LET args == Tail(LineTokens(k))
                n == line_no(k - 1)
            IN  \A i \in EntriesOfRule(Head(LineTokens(k)),
                                       {"inline_file", "inline_file_optional"}) :
                    LET optional == Registry[i].optional_args
                    IN  IF args = <<>>
                        THEN OnlyWarningAt(n, "NotEnoughArguments")
                        ELSE OnlySuccessAt(n, Registry[i].rust_name,
                                 [f \in {"file"} \cup Range(optional) |->
                                     IF f = "file"
                                     THEN <<"FilePath", <<args[1]>>>>
                                     ELSE IF \E j \in 1..Len(optional) :
                                                 optional[j] = f /\ 1 + j <= Len(args)
                                          THEN <<"Some",
                                                 <<args[1 + CHOOSE j \in 1..Len(optional) :
                                                           optional[j] = f]>>>>
                                          ELSE <<"None", <<>>>>])

\* C13 witness: a tls-auth line with a path and a direction that differ was
\* dispatched
C13_Witness ==
    \E s \in 1..Len(success_lines) :
        /\ success_lines[s].result.variant = "TlsAuth"
        /\ success_lines[s].result.fields["file"] = <<"FilePath", <<"nogw">>>>
        /\ success_lines[s].result.fields["direction"] = <<"Some", <<"10.0.0.1">>>>

\* C14: surplus tokens are ignored, never rejected.  A no-argument command
\* followed by any number of tokens gives its variant, and for a
\* fixed-arity command with N required and M optional names the tokens
\* after the first N+M do not change the directive and produce no warning.
C14_SurplusIgnored ==
    \A k \in 1..Len(lines_read) :
        IsCommandAt(k) =>
            LET args == Tail(LineTokens(k))
                n == line_no(k - 1)
            IN  \A i \in FixedEntries(Head(LineTokens(k))) :
                    LET e == Registry[i]
                        N == Len(e.args)
                        M == Len(e.optional_args)
                    IN  Len(args) > N + M =>
                            OnlySuccessAt(n, e.rust_name,
                                [f \in Range(e.args) \cup Range(e.optional_args) |->
                                    IF f \in Range(e.args)
                                    THEN <<"String",
                                           <<args[CHOOSE j \in 1..N : e.args[j] = f]>>>>
                                    ELSE <<"Some",
                                           <<args[N + CHOOSE j \in 1..M :
                                                          e.optional_args[j] = f]>>>>])

\* C14 witness: float, which takes no argument, was read with two tokens
\* after it and gave Float
C14_Witness ==
    /\ Len(lines_read) = 1
    /\ IsCommandAt(1)
    /\ Head(LineTokens(1)) = "float"
    /\ Len(LineTokens(1)) = 3
    /\ Len(success_lines) = 1
    /\ success_lines[1].number = line_no(0)
    /\ success_lines[1].result.variant = "Float"
    /\ DOMAIN success_lines[1].result.fields = {}

\* the command string under which the table registers a variant
CommandOfVariant(rust_name) ==
    Registry[CHOOSE i \in 1..Len(Registry) : Registry[i].rust_name = rust_name].command

\* what parse makes of one command line: strip the comment, tokenize,
\* dispatch
DispatchLine(line) ==
    LET command_and_args == split_whitespace(COMMENT_REGEX_replace(line))
    IN  parse_line(Head(command_and_args), Tail(command_and_args))

\* the success entries whose directive has a file field that is a FilePath
PathEntries ==
    {s \in 1..Len(success_lines) :
        /\ "file" \in DOMAIN success_lines[s].result.fields
        /\ success_lines[s].result.fields["file"][1] = "FilePath"}

\* C15 as stated: for every directive whose file field is FilePath(p),
\* parsing the line made of the directive's command name followed by p
\* reproduces the identical directive.
C15_ReparsePathOnly ==
    \A s \in PathEntries :
        LET d == success_lines[s].result
        IN  DispatchLine(<<CommandOfVariant(d.variant), " ", d.fields["file"][2][1]>>)
                = [kind |-> "Success", directive |-> d]

\* C15 amended: for every directive whose file field is FilePath(p),
\* parsing the line made of the command name under which the table
\* registers the variant, followed by p and, when the directive has a
\* direction, by that direction, reproduces the identical directive.
C15_ReparsePathAndDirection ==
    \A s \in PathEntries :
        LET d == success_lines[s].result
            direction == IF "direction" \in DOMAIN d.fields /\ d.fields["direction"][1] = "Some"
                         THEN <<" ", d.fields["direction"][2][1]>>
                         ELSE <<>>
        IN  DispatchLine(<<CommandOfVariant(d.variant), " ", d.fields["file"][2][1]>>
                         \o direction)
                = [kind |-> "Success", directive |-> d]

\* C15 witness: a secret directive with a path and a direction was produced
\* by a line that had a further token
C15_Witness ==
    /\ Len(lines_read) = 1
    /\ LineTokens(1) = <<"secret", "nogw", "10.0.0.1", "nogw">>
    /\ PathEntries = {1}
    /\ success_lines[1].result.fields["direction"] = <<"Some", <<"10.0.0.1">>>>

\* the line begins, at column 0, with the end marker of id
BeginsWithEndMarker(line, id) ==
    Len(line) >= 4 /\ SubSeq(line, 1, 4) = <<"<", "/", id, ">">>

\* the step reads a line while a block is open
ReadsInBlock ==
    /\ pc = "reading"
    /\ inline_file_parse_state # <<>>
    /\ Len(lines_read') = Len(lines_read) + 1
    /\ lines_read'[Len(lines_read')].ok

\* C16: while a block for identifier id is open, only a line that begins at
\* column 0 with the end marker of that id closes it; every other line (a
\* valid command, a comment, a blank line, a start marker, the end marker of
\* another identifier, an end marker preceded by whitespace) is appended
\* verbatim to the block's content and leaves success_lines and
\* warning_lines unchanged.
C16_OnlyEndMarkerCloses ==
    [][ReadsInBlock =>
          LET line == lines_read'[Len(lines_read')].line
              state == inline_file_parse_state[1]
          IN  /\ inline_file_parse_state' = <<>>
                     => BeginsWithEndMarker(line, state.identifier)
              /\ ~BeginsWithEndMarker(line, state.identifier)
                     => /\ inline_file_parse_state' =
                               <<[state EXCEPT !.lines = Append(@, line)]>>
                        /\ success_lines' = success_lines
                        /\ warning_lines' = warning_lines]_vars

\* C16 witness: a tls-auth block holds a valid command line and the end
\* marker of another identifier as content, and nothing was emitted
C16_Witness ==
    /\ inline_file_parse_state # <<>>
    /\ inline_file_parse_state[1].identifier = "tls-auth"
    /\ inline_file_parse_state[1].lines =
           <<<<"resolv-retry", " ", "10">>, <<"<", "/", "ca", ">">>>>
    /\ success_lines = <<>>
    /\ warning_lines = <<>>

\* C17: if end of input is reached while a block is open, the block is
\* silently discarded: parse returns Ok, and neither the unmatched start
\* marker nor any line after it (valid commands included) has an entry in
\* the success_lines or warning_lines returned.
C17_UnterminatedBlockDiscarded ==
    (pc = "returned" /\ AllReadable /\ OpenStart(lines_read) # 0) =>
        /\ Len(ret) = 1
        /\ ret[1].kind = "Ok"
        /\ \A m \in OpenStart(lines_read)..Len(lines_read) :
               /\ EntriesAt(ret[1].success_lines, line_no(m - 1)) = {}
               /\ EntriesAt(ret[1].warning_lines, line_no(m - 1)) = {}
        /\ Len(ret[1].success_lines) + Len(ret[1].warning_lines)
               <= OpenStart(lines_read) - 1

\* C17 witness: the input ended in a block that was opened after a line
\* that gave a directive and that holds a valid command line
C17_Witness ==
    /\ pc = "returned"
    /\ OpenStart(lines_read) = 2
    /\ Len(lines_read) = 4
    /\ lines_read[3] = OkLine(<<"resolv-retry", " ", "10">>)
    /\ AllReadable
    /\ ret[1].kind = "Ok"
    /\ Len(ret[1].success_lines) = 1

\* the blocks of the input that were terminated: <<start, end>> positions
TerminatedBlocks ==
    {p \in (1..Len(lines_read)) \X (1..Len(lines_read)) : Terminates(p[1], p[2])}

\* the success entries that are inline directives
InlineEntries ==
    {s \in 1..Len(success_lines) :
        /\ "file" \in DOMAIN success_lines[s].result.fields
        /\ success_lines[s].result.fields["file"][1] = "InlineFileContents"}

\* C18: reading the matching end marker returns the accumulator to None
\* with empty content.  The accumulator is None exactly when the input read
\* so far leaves no block open, and otherwise holds the start marker's
\* number and identifier and the lines after that start marker only; a
\* command line after a closed block has the entry its own dispatch gives;
\* and an input with k terminated blocks has exactly k inline directives.
C18_AccumulatorResets ==
    AllReadable =>
        /\ LET o == OpenStart(lines_read)
           IN  inline_file_parse_state =
                   IF o = 0
                   THEN <<>>
                   ELSE <<[start_line_no |-> line_no(o - 1),
                           identifier |-> INLINE_START_REGEX_captures(lines_read[o].line)[1],
                           lines |-> [i \in 1..(Len(lines_read) - o) |->
                                         lines_read[o + i].line]]>>
        /\ \A k \in 1..Len(lines_read) :
               (IsCommandAt(k) /\ \E p \in TerminatedBlocks : p[2] < k) =>
                   LET result == DispatchLine(lines_read[k].line)
                   IN  IF result.kind = "Success"
                       THEN /\ EntriesAt(warning_lines, line_no(k - 1)) = {}
                            /\ {success_lines[s] : s \in EntriesAt(success_lines, line_no(k - 1))}
                                   = {ConfigLine(line_no(k - 1), result.directive)}
                       ELSE OnlyWarningAt(line_no(k - 1), result.kind)
        /\ Cardinality(InlineEntries) = Cardinality(TerminatedBlocks)

\* C18 witness: a second block was terminated after a first one
C18_Witness ==
    /\ Len(lines_read) = 4
    /\ TerminatedBlocks = {<<1, 2>>, <<3, 4>>}
    /\ Len(success_lines) = 2
    /\ inline_file_parse_state = <<>>

\* the positions of "#" in a line, and those that no backslash precedes (a
\* backslash is a segment of its own in the lines read here)
HashPositions(line) == {k \in 1..Len(line) : line[k] = "#"}

UnescapedHashPositions(line) ==
    {k \in HashPositions(line) : k = 1 \/ line[k - 1] # "\\"}

\* the tokens of the text of a line before the least of the positions (of
\* the whole line when there is none)
RECURSIVE TokensUpTo(_, _, _, _)
TokensUpTo(line, positions, i, tokens) ==
    IF i > Len(line) \/ i \in positions
    THEN tokens
    ELSE IF line[i] \in Whitespace
         THEN TokensUpTo(line, positions, i + 1,
                         IF tokens # <<>> /\ tokens[Len(tokens)] = ""
                         THEN tokens ELSE Append(tokens, ""))
         ELSE TokensUpTo(line, positions, i + 1,
                         IF tokens = <<>>
                         THEN <<line[i]>>
                         ELSE [tokens EXCEPT ![Len(tokens)] = @ \o line[i]])

TokensBefore(line, positions) ==
    SelectSeq(TokensUpTo(line, positions, 1, <<>>), LAMBDA t : t # "")

\* line number n has the one entry that dispatching these tokens gives
EntryOfTokens(n, tokens) ==
    LET result == parse_line(Head(tokens), Tail(tokens))
    IN  IF result.kind = "Success"
        THEN /\ EntriesAt(warning_lines, n) = {}
             /\ Cardinality(EntriesAt(success_lines, n)) = 1
             /\ \A s \in EntriesAt(success_lines, n) :
                    success_lines[s].result = result.directive
        ELSE OnlyWarningAt(n, result.kind)

\* C19 as stated: a command line is cut at the first "#" that no backslash
\* precedes, and the text before it is split on runs of whitespace into the
\* command name and the arguments that are dispatched.
C19_CutAtFirstUnescapedHash ==
    \A k \in 1..Len(lines_read) :
        IsCommandAt(k) =>
            EntryOfTokens(line_no(k - 1),
                TokensBefore(lines_read[k].line,
                             UnescapedHashPositions(lines_read[k].line)))

\* C19: a command line is cut at the first "#", whether or not a backslash
\* precedes it: the text before it is split on runs of whitespace into the
\* command name and the arguments, and nothing from that "#" onward is
\* dispatched.  "remote host # port" gives Remote with host only, and
\* "remote host \# port" gives Remote with host and the backslash as port.
C19_CutAtFirstHash ==
    \A k \in 1..Len(lines_read) :
        IsCommandAt(k) =>
            LET line == lines_read[k].line
                n == line_no(k - 1)
            IN  /\ EntryOfTokens(n, TokensBefore(line, HashPositions(line)))
                /\ line = <<"remote", " ", "host", " ", "#", " ", "port">> =>
                       OnlySuccessAt(n, "Remote",
                           [host |-> <<"String", <<"host">>>>,
                            port |-> <<"None", <<>>>>,
                            proto |-> <<"None", <<>>>>])
                /\ line = <<"remote", " ", "host", " ", "\\", "#", " ", "port">> =>
                       OnlySuccessAt(n, "Remote",
                           [host |-> <<"String", <<"host">>>>,
                            port |-> <<"Some", <<"\\">>>>,
                            proto |-> <<"None", <<>>>>])

\* C19 witness: both remote lines were read as command lines, the one with
\* the bare "#" and the one with the backslash before it
C19_Witness ==
    /\ Len(lines_read) = 2
    /\ lines_read[1].line = <<"remote", " ", "host", " ", "#", " ", "port">>
    /\ lines_read[2].line = <<"remote", " ", "host", " ", "\\", "#", " ", "port">>
    /\ IsCommandAt(1)
    /\ IsCommandAt(2)
    /\ Len(success_lines) = 2
    /\ success_lines[2].result.fields["port"] = <<"Some", <<"\\">>>>

\* the line begins at column 0 with <id>, id one of the inline-capable names
BeginsWithStartMarker(line) ==
    /\ Len(line) >= 3
    /\ line[1] = "<"
    /\ line[2] \in INLINE_FILE_OPTIONS
    /\ line[3] = ">"

\* the first thing on the line that is not whitespace is "<"
AngleBracketLine(line) ==
    \E k \in 1..Len(line) :
        /\ line[k] = "<"
        /\ \A j \in 1..(k - 1) : line[j] \in Whitespace

\* C20: with no block open, the line read opens a block if and only if it
\* begins at column 0 with <id> and id is one of the eleven inline-capable
\* names; any other line whose first character after whitespace is "<"
\* opens no block and gives one NoMatchingCommand warning with its number.
C20_StartMarkerOpensBlock ==
    LET k == Len(lines_read)
    IN  (k >= 1 /\ AllReadable /\ OpenStart(SubSeq(lines_read, 1, k - 1)) = 0) =>
            LET line == lines_read[k].line
            IN  /\ inline_file_parse_state # <<>> <=> BeginsWithStartMarker(line)
                /\ (AngleBracketLine(line) /\ ~BeginsWithStartMarker(line)) =>
                       /\ inline_file_parse_state = <<>>
                       /\ OnlyWarningAt(line_no(k - 1), "NoMatchingCommand")

\* the line numbers of the entries of a sequence of config lines
NumbersOf(config_lines) == {config_lines[i].number : i \in 1..Len(config_lines)}

\* C21: every input line produces at most one output entry.  After any
\* prefix of the input no line number occurs twice within success_lines,
\* within warning_lines, or in both, every number in either sequence is the
\* number the parser gave to a line already read, and the total number of
\* entries does not exceed the number of lines read.
C21_AtMostOneEntryPerLine ==
    /\ Cardinality(NumbersOf(success_lines)) = Len(success_lines)
    /\ Cardinality(NumbersOf(warning_lines)) = Len(warning_lines)
    /\ NumbersOf(success_lines) \cap NumbersOf(warning_lines) = {}
    /\ NumbersOf(success_lines) \cup NumbersOf(warning_lines)
           \subseteq {line_no(k - 1) : k \in 1..Len(lines_read)}
    /\ Len(success_lines) + Len(warning_lines) <= Len(lines_read)
    /\ (pc = "returned" /\ ret[1].kind = "Ok") =>
           /\ ret[1].success_lines = success_lines
           /\ ret[1].warning_lines = warning_lines

\* C21 witness: four lines were read, a command, a command with too few
\* arguments and a terminated block, and gave three entries
C21_Witness ==
    /\ Len(lines_read) = 4
    /\ AllReadable
    /\ IsCommandAt(1)
    /\ IsCommandAt(2)
    /\ Terminates(3, 4)
    /\ NumbersOf(success_lines) = {line_no(0), line_no(2)}
    /\ NumbersOf(warning_lines) = {line_no(1)}

\* the identifiers that have an arm in the match of to_config_line
HandledIdentifiers ==
    {InlineVariants[i].identifier : i \in 1..Len(InlineVariants)}

\* C22: parse has no reachable panic for any sequence of readable lines.
\* It never panics, every line that reaches tokenization has a first token
\* after the comment is stripped, and the identifier of an open block is
\* one of the eleven names that to_config_line handles.
C22_NoPanic ==
    AllReadable =>
        /\ pc # "panicked"
        /\ \A k \in 1..Len(lines_read) :
               IsCommandAt(k) =>
                   TokensBefore(lines_read[k].line,
                                HashPositions(lines_read[k].line)) # <<>>
        /\ BlockOpen =>
               inline_file_parse_state[1].identifier \in HandledIdentifiers

\* C22 witness: a ca block is open after a line with an unknown identifier
\* and a line with a comment after its arguments were tokenized
C22_Witness ==
    /\ Len(lines_read) = 3
    /\ lines_read[1].line = <<"<", "foo", ">">>
    /\ lines_read[2].line = <<"remote", " ", "host", " ", "#", " ", "port">>
    /\ IsCommandAt(1)
    /\ IsCommandAt(2)
    /\ Len(warning_lines) = 1
    /\ Len(success_lines) = 1
    /\ BlockOpen
    /\ inline_file_parse_state[1].identifier = "ca"
    /\ pc = "reading"

====
